---- MODULE Spec2Model ----
(***************************************************************************)
(* A model of the MarketPulse Commerce API (hallel20/marketpulse-backend): *)
(* the authentication service and routes, the address routes and the       *)
(* product / review routes, each translated from the handler's code.       *)
(*                                                                         *)
(* Time is counted in minutes.  Money is counted in cents, ratings in      *)
(* hundredths of a star (the two decimals of a Numeric(_, 2) column).      *)
(***************************************************************************)
EXTENDS Integers, Sequences, FiniteSets, TLC

VARIABLES
    now,        \* datetime.utcnow(), in minutes
    users,      \* table users: a sequence of rows, users[i].id = i
    mail,       \* background tasks handed to the email service, in order
    resp,       \* the response of the request handled by the last step
    tok,        \* token harness: the token string under verification
    tokMint,    \* token harness: how tok came to be (type, time, tampering)
    tokOut,     \* token harness: the outcome of the last verify_token call
    addresses,  \* table addresses: address id -> row
    areq,       \* address requests in flight: slot -> position and locals
    products,   \* table products: product id -> row
    reviews,    \* table product_reviews: a sequence of rows
    rreq,       \* create-review requests in flight: slot -> position and locals
    search,     \* the Elasticsearch product index: product id -> document
    orders,     \* table orders as the seeding session holds it: a sequence of rows
    seeding,    \* the seeding run: "running", "committed" or "failed"
    vreq,       \* product-page requests in flight: slot -> position and locals
    sessions,   \* request-scoped database sessions: request slot -> session
    tasks       \* the background tasks run so far, in the order of mail

tokVars == <<tok, tokMint, tokOut>>
authVars == <<users, mail>>
addrVars == <<addresses, areq>>
prodVars == <<products, reviews, rreq, search>>
orderVars == <<orders, seeding>>
viewVars == <<vreq>>
sessVars == <<sessions>>
taskVars == <<tasks>>
vars == <<now, resp, tokVars, authVars, addrVars, prodVars, orderVars, viewVars, sessVars, taskVars>>

-----------------------------------------------------------------------------
(* Bounds of the model *)

MaxUsers == 3
MaxMail == 2
MaxClock == 2
MaxAddresses == 2

(* Inputs *)

Emails == {"ann@example.com", "bob@example.com", "cy@example.com"}
Passwords == {"short07", "passwd08", "password9"}
Salts == {"salt1"}

(* Optional values: Python's None, and a present value *)

None == [some |-> FALSE]
Some(v) == [some |-> TRUE, val |-> v]

Idle == [op |-> "idle"]

-----------------------------------------------------------------------------
(* app/config.py and app/services/auth_service.py: token lifetimes *)

ACCESS_TOKEN_EXPIRE_MINUTES == 30
REFRESH_TOKEN_EXPIRE_DAYS == 7
EMAIL_VERIFICATION_EXPIRE_HOURS == 24
PASSWORD_RESET_EXPIRE_HOURS == 1
SECRET_KEY == "secret-key"

TokenTypes == {"access", "refresh", "email_verification", "password_reset"}

(* jose.jwt.encode: a compact token carrying the claims and a signature   *)
(* made with the key over exactly these claims                            *)
jwt_sign(claims, key) == [key |-> key, over |-> claims]
jwt_encode(claims, key) ==
    [format |-> "jws", sig |-> jwt_sign(claims, key), claims |-> claims]

(* jose.jwt.decode: JWTError on a token that is not three well-formed     *)
(* segments, on a signature that does not verify under the key, and       *)
(* (ExpiredSignatureError) when exp < now; otherwise the claims.          *)
jwt_decode(token, key, t) ==
    IF token.format # "jws" THEN [raised |-> "JWTError"]
    ELSE IF token.sig # jwt_sign(token.claims, key) THEN [raised |-> "JWTError"]
    ELSE IF token.claims.exp < t THEN [raised |-> "JWTError"]
    ELSE [raised |-> "no", claims |-> token.claims]

create_access_token(data, t) ==
    jwt_encode([sub |-> data.sub, user_id |-> data.user_id,
                exp |-> t + ACCESS_TOKEN_EXPIRE_MINUTES, type |-> "access"],
               SECRET_KEY)

create_refresh_token(data, t) ==
    jwt_encode([sub |-> data.sub, user_id |-> data.user_id,
                exp |-> t + REFRESH_TOKEN_EXPIRE_DAYS * 24 * 60, type |-> "refresh"],
               SECRET_KEY)

create_email_verification_token(email, t) ==
    jwt_encode([sub |-> email, exp |-> t + EMAIL_VERIFICATION_EXPIRE_HOURS * 60,
                type |-> "email_verification"], SECRET_KEY)

create_password_reset_token(email, t) ==
    jwt_encode([sub |-> email, exp |-> t + PASSWORD_RESET_EXPIRE_HOURS * 60,
                type |-> "password_reset"], SECRET_KEY)

(* verify_token without the comparison of the type claim *)
verify_token_untyped(token, token_type, t) ==
    LET d == jwt_decode(token, SECRET_KEY, t)
    IN  IF d.raised # "no" THEN [raised |-> "no", payload |-> None]
        ELSE [raised |-> "no", payload |-> Some(d.claims)]

(* AuthService.verify_token: the payload, or None on JWTError or on a     *)
(* type claim other than token_type.  raised records an escaping fault.   *)
verify_token(token, token_type, t) ==
    LET d == jwt_decode(token, SECRET_KEY, t)
    IN  IF d.raised # "no" THEN [raised |-> "no", payload |-> None]
        ELSE IF d.claims.type # token_type THEN [raised |-> "no", payload |-> None]
        ELSE [raised |-> "no", payload |-> Some(d.claims)]

verify_access_token(token, t) == verify_token(token, "access", t).payload
verify_refresh_token(token, t) == verify_token(token, "refresh", t).payload

-----------------------------------------------------------------------------
(* Token harness: mint a token of any of the four types, let time pass,   *)
(* damage the token, and verify it as any type.                           *)

NoToken == [format |-> "empty"]
NoMint == [type |-> "none", at |-> 0, sub |-> "", intact |-> FALSE]
NoVerify == [as |-> "none"]

Lifetime(type) ==
    CASE type = "access" -> ACCESS_TOKEN_EXPIRE_MINUTES
      [] type = "refresh" -> REFRESH_TOKEN_EXPIRE_DAYS * 24 * 60
      [] type = "email_verification" -> EMAIL_VERIFICATION_EXPIRE_HOURS * 60
      [] type = "password_reset" -> PASSWORD_RESET_EXPIRE_HOURS * 60

(* the instants at which some token type is at, or just past, its expiry *)
TimePoints == {0} \cup UNION {{Lifetime(ty), Lifetime(ty) + 1} : ty \in TokenTypes}

Tamperings == {"garbage", "empty", "forged", "retyped"}

OtherType(type) == IF type = "access" THEN "refresh" ELSE "access"

Tampered(token, how) ==
    CASE how = "garbage" -> [format |-> "garbage"]
      [] how = "empty" -> [format |-> "empty"]
      [] how = "forged" ->
            [token EXCEPT !.sig = jwt_sign(token.claims, "attacker-key")]
      [] how = "retyped" ->
            [token EXCEPT !.claims.type = OtherType(token.claims.type)]

MintToken(type, email) ==
    /\ tok' = CASE type = "access" ->
                     create_access_token([sub |-> email, user_id |-> 1], now)
                [] type = "refresh" ->
                     create_refresh_token([sub |-> email, user_id |-> 1], now)
                [] type = "email_verification" ->
                     create_email_verification_token(email, now)
                [] type = "password_reset" ->
                     create_password_reset_token(email, now)
    /\ tokMint' = [type |-> type, at |-> now, sub |-> email, intact |-> TRUE]
    /\ tokOut' = NoVerify
    /\ UNCHANGED <<now, resp, authVars, addrVars, prodVars, orderVars, viewVars, sessVars, taskVars>>

TamperToken(how) ==
    /\ tokMint.intact
    /\ tok' = Tampered(tok, how)
    /\ tokMint' = [tokMint EXCEPT !.intact = FALSE]
    /\ tokOut' = NoVerify
    /\ UNCHANGED <<now, resp, authVars, addrVars, prodVars, orderVars, viewVars, sessVars, taskVars>>

VerifyToken(type) ==
    /\ tokOut' = [as |-> type, at |-> now, out |-> verify_token(tok, type, now)]
    /\ UNCHANGED <<now, resp, tok, tokMint, authVars, addrVars, prodVars, orderVars, viewVars, sessVars, taskVars>>

Advance ==
    /\ \E t \in TimePoints : t > now /\ now' = t
    /\ UNCHANGED <<resp, tokVars, authVars, addrVars, prodVars, orderVars, viewVars, sessVars, taskVars>>

-----------------------------------------------------------------------------
(* app/main.py: the exception handlers that turn a domain fault into a    *)
(* JSON error response                                                    *)

validation_exception_handler(detail) ==
    [status |-> 400, error |-> "Validation Error", detail |-> detail]
not_found_exception_handler(detail) ==
    [status |-> 404, error |-> "Not Found", detail |-> detail]
unauthorized_exception_handler(detail) ==
    [status |-> 401, error |-> "Unauthorized", detail |-> detail]
(* a fault no handler is registered for: the platform's 500 *)
unhandled_error(name) ==
    [status |-> 500, error |-> "Internal Server Error", detail |-> name]

Respond(op, req, out) == [op |-> op, req |-> req, out |-> out]

-----------------------------------------------------------------------------
(* app/services/auth_service.py: passwords and users *)

MIN_PASSWORD_LENGTH == 8

(* bcrypt: a salted one-way digest; the hash string carries its salt *)
Digest(salt, password) == <<salt, password>>
get_password_hash(password, salt) ==
    [scheme |-> "bcrypt", salt |-> salt, digest |-> Digest(salt, password)]
verify_password(plain_password, hashed_password) ==
    hashed_password.digest = Digest(hashed_password.salt, plain_password)

(* app/models/user.py: a new User row with the column defaults; the       *)
(* registrations of the model all give the same names and no phone        *)
User(id, email, password_hash) ==
    [id |-> id, email |-> email, password_hash |-> password_hash,
     first_name |-> "first", last_name |-> "last", phone |-> None,
     is_active |-> TRUE, is_verified |-> FALSE, is_admin |-> FALSE,
     last_login |-> None]

(* app/schemas/user.py: the fields of a row that a response exposes *)
UserResponse(user) ==
    [id |-> user.id, email |-> user.email, is_active |-> user.is_active,
     is_verified |-> user.is_verified, is_admin |-> user.is_admin,
     last_login |-> user.last_login]

(* a lookup that finds no row *)
get_user_by_email_none(email) == None

get_user_by_email(email) ==
    IF \E i \in 1..Len(users) : users[i].email = email
    THEN Some(users[CHOOSE i \in 1..Len(users) : users[i].email = email])
    ELSE None

(* authenticate_user without the password comparison *)
authenticate_user_any(email, password) ==
    get_user_by_email(email)

authenticate_user(email, password) ==
    LET user == get_user_by_email(email)
    IN  IF ~user.some THEN None
        ELSE IF ~verify_password(password, user.val.password_hash) THEN None
        ELSE user

(* create_user rejecting a password of exactly the minimum length *)
create_user_off_by_one(user_data, salt) ==
    IF Len(user_data.password) <= MIN_PASSWORD_LENGTH
    THEN [raised |-> "ValidationException",
          detail |-> "Password must be at least 8 characters long"]
    ELSE LET user == User(Len(users) + 1, user_data.email,
                          get_password_hash(user_data.password, salt))
         IN  [raised |-> "no", users |-> Append(users, user), user |-> user]

(* AuthService.create_user: the length check, then the INSERT and commit, *)
(* which the unique index on users.email fails with an IntegrityError     *)
create_user(user_data, salt) ==
    IF Len(user_data.password) < MIN_PASSWORD_LENGTH
    THEN [raised |-> "ValidationException",
          detail |-> "Password must be at least 8 characters long"]
    ELSE IF \E i \in 1..Len(users) : users[i].email = user_data.email
    THEN [raised |-> "IntegrityError"]
    ELSE LET user == User(Len(users) + 1, user_data.email,
                          get_password_hash(user_data.password, salt))
         IN  [raised |-> "no", users |-> Append(users, user), user |-> user]

-----------------------------------------------------------------------------
(* app/api/auth.py.  A step is a request that reaches its handler: the    *)
(* limiter (@limiter.limit) answers a client over its per-minute quota    *)
(* with 429 before the handler runs.                                      *)

register(user_data, salt) ==
    LET existing_user == get_user_by_email(user_data.email)
        made == create_user(user_data, salt)
    IN  /\ \/ Len(users) < MaxUsers
           \/ existing_user.some
           \/ made.raised # "no"
        /\ IF existing_user.some
           THEN /\ resp' = Respond("register", user_data,
                       validation_exception_handler("Email address is already registered"))
                /\ UNCHANGED authVars
           ELSE IF made.raised = "ValidationException"
           THEN /\ resp' = Respond("register", user_data,
                                   validation_exception_handler(made.detail))
                /\ UNCHANGED authVars
           ELSE IF made.raised # "no"
           THEN /\ resp' = Respond("register", user_data, unhandled_error(made.raised))
                /\ UNCHANGED authVars
           ELSE /\ users' = made.users
                /\ mail' = Append(mail,
                       [task |-> "send_verification_email", to |-> made.user.email,
                        token |-> create_email_verification_token(made.user.email, now)])
                /\ resp' = Respond("register", user_data,
                                   [status |-> 201, body |-> UserResponse(made.user)])
        /\ UNCHANGED <<now, tokVars, addrVars, prodVars, orderVars, viewVars, sessVars, taskVars>>

login(credentials) ==
    LET user == authenticate_user(credentials.email, credentials.password)
    IN  /\ IF ~user.some
           THEN /\ resp' = Respond("login", credentials,
                       unauthorized_exception_handler("Invalid email or password"))
                /\ UNCHANGED authVars
           ELSE IF ~user.val.is_active
           THEN /\ resp' = Respond("login", credentials,
                       unauthorized_exception_handler("Account is deactivated"))
                /\ UNCHANGED authVars
           ELSE LET claims == [sub |-> user.val.email, user_id |-> user.val.id]
                IN  /\ users' = [users EXCEPT ![user.val.id].last_login = Some(now)]
                    /\ resp' = Respond("login", credentials,
                           [status |-> 200,
                            body |-> [access_token |-> create_access_token(claims, now),
                                      refresh_token |-> create_refresh_token(claims, now),
                                      token_type |-> "bearer"]])
                    /\ UNCHANGED mail
        /\ UNCHANGED <<now, tokVars, addrVars, prodVars, orderVars, viewVars, sessVars, taskVars>>

(* a response of status 204 carries no body: the content a handler        *)
(* returns is dropped                                                     *)
no_content(content) == [status |-> 204, body |-> None]

(* forgot_password mailing whoever holds the address, active or not *)
forgot_password_any_user(request_data) ==
    LET user == get_user_by_email(request_data.email)
    IN  /\ IF user.some
           THEN /\ Len(mail) < MaxMail
                /\ mail' = Append(mail,
                       [task |-> "send_password_reset_email", to |-> user.val.email,
                        token |-> create_password_reset_token(user.val.email, now)])
           ELSE mail' = mail
        /\ resp' = Respond("forgot_password", request_data,
               no_content([message |->
                   "If the email exists, a password reset link has been sent"]))
        /\ UNCHANGED <<now, users, tokVars, addrVars, prodVars, orderVars, viewVars, sessVars, taskVars>>

(* POST /auth/forgot-password *)
forgot_password(request_data) ==
    LET user == get_user_by_email(request_data.email)
    IN  /\ IF user.some /\ user.val.is_active
           THEN /\ Len(mail) < MaxMail
                /\ mail' = Append(mail,
                       [task |-> "send_password_reset_email", to |-> user.val.email,
                        token |-> create_password_reset_token(user.val.email, now)])
           ELSE mail' = mail
        /\ resp' = Respond("forgot_password", request_data,
               no_content([message |->
                   "If the email exists, a password reset link has been sent"]))
        /\ UNCHANGED <<now, users, tokVars, addrVars, prodVars, orderVars, viewVars, sessVars, taskVars>>

(* time passes between two requests *)
Tick ==
    /\ now < MaxClock
    /\ now' = now + 1
    /\ resp' = Idle
    /\ UNCHANGED <<tokVars, authVars, addrVars, prodVars, orderVars, viewVars, sessVars, taskVars>>

-----------------------------------------------------------------------------
(* app/api/users.py: the address routes.  Each handler runs on its own    *)
(* session and is suspended at every awaited database call; a request in  *)
(* flight occupies a slot of areq, pc naming the call it is suspended     *)
(* before.  Changes made to loaded rows reach the database when the       *)
(* session commits.  With serial set, a request is admitted only when no  *)
(* other is in flight.                                                    *)

AddrIds == 1..MaxAddresses
AddrSlots == {"a", "b"}
Streets == {"1 Main St", "2 Side St"}

IdleSlot == [pc |-> "idle"]

(* app/models/user.py: an Address row *)
Address(id, user_id, data) ==
    [id |-> id, user_id |-> user_id, street |-> data.street,
     is_default |-> data.is_default]

(* the addresses that are stored or that a request in flight holds on to; *)
(* a new uuid4 primary key is none of them                                *)
AddrIdsKnown ==
    DOMAIN addresses \cup
    UNION {IF areq[r].pc = "idle" THEN {}
           ELSE {areq[r].address_id} \cup areq[r].existing_defaults : r \in AddrSlots}
FreshAddrId == CHOOSE id \in AddrIds : id \notin AddrIdsKnown

Quiet(slots, req) == \A r \in slots : req[r].pc = "idle"

(* a request that clears no other default *)
select_defaults_none(user_id, except) == {}

(* select(Address).where(user_id == current_user.id, is_default == True), *)
(* for update_address also .where(Address.id != address_id)               *)
select_defaults(user_id, except) ==
    {id \in DOMAIN addresses :
        /\ addresses[id].user_id = user_id
        /\ addresses[id].is_default
        /\ id # except}

(* the address looked up by its id alone *)
select_address_any_user(address_id, user_id) ==
    IF address_id \in DOMAIN addresses
    THEN Some(addresses[address_id])
    ELSE None

(* select(Address).where(id == address_id, user_id == current_user.id)    *)
select_address(address_id, user_id) ==
    IF address_id \in DOMAIN addresses /\ addresses[address_id].user_id = user_id
    THEN Some(addresses[address_id])
    ELSE None

(* the UPDATEs a session flushes for the defaults it has cleared; a row   *)
(* that is gone by then matches no UPDATE (StaleDataError)                *)
Stale(ids) == \E id \in ids : id \notin DOMAIN addresses
Cleared(table, ids) ==
    [id \in DOMAIN table |->
        IF id \in ids THEN [table[id] EXCEPT !.is_default = FALSE] ELSE table[id]]

(* model_dump(exclude_unset=True) applied with setattr: only a supplied   *)
(* field is written, and only when it differs from the loaded value       *)
Changed(loaded, update_data) ==
    {f \in {"street", "is_default"} :
        update_data[f].some /\ update_data[f].val # loaded[f]}
Written(row, loaded, update_data) ==
    [f \in DOMAIN row |->
        IF f \in Changed(loaded, update_data) THEN update_data[f].val ELSE row[f]]

AddrStep(r, slot, response) ==
    /\ areq' = [areq EXCEPT ![r] = slot]
    /\ resp' = response
    /\ UNCHANGED <<now, tokVars, authVars, prodVars, orderVars, viewVars, sessVars, taskVars>>

ActiveUsers == {i \in 1..Len(users) : users[i].is_active}

(* POST /addresses *)
create_address_begin(r, user_id, address_data, serial) ==
    /\ areq[r].pc = "idle"
    /\ serial => Quiet(AddrSlots, areq)
    /\ AddrIds \ AddrIdsKnown # {}
    /\ AddrStep(r, [pc |-> IF address_data.is_default THEN "defaults" ELSE "commit",
                    kind |-> "create_address", user_id |-> user_id,
                    address_id |-> FreshAddrId, data |-> address_data,
                    existing_defaults |-> {}], Idle)
    /\ UNCHANGED addresses

(* GET, PUT and DELETE /addresses/{address_id} *)
address_begin(r, kind, user_id, address_id, update_data, serial) ==
    /\ areq[r].pc = "idle"
    /\ serial => Quiet(AddrSlots, areq)
    /\ AddrStep(r, [pc |-> "load", kind |-> kind, user_id |-> user_id,
                    address_id |-> address_id, data |-> update_data,
                    existing_defaults |-> {}], Idle)
    /\ UNCHANGED addresses

(* "Get address": the not-found fault, or the row is loaded;             *)
(* GET /addresses/{address_id} returns it                                 *)
address_load(r) ==
    /\ areq[r].pc = "load"
    /\ LET q == areq[r]
           address == select_address(q.address_id, q.user_id)
       IN  IF ~address.some
           THEN AddrStep(r, IdleSlot,
                    Respond(q.kind, q, not_found_exception_handler("Address not found")))
           ELSE IF q.kind = "get_address"
           THEN AddrStep(r, IdleSlot,
                    Respond(q.kind, q, [status |-> 200, body |-> address.val]))
           ELSE AddrStep(r, [q EXCEPT
                    !.pc = IF q.kind = "update_address" /\ q.data.is_default = Some(TRUE)
                           THEN "defaults" ELSE "commit",
                    !.data = [update |-> q.data, loaded |-> address.val]], Idle)
    /\ UNCHANGED addresses

(* "unset other default addresses": the defaults are read *)
address_defaults(r) ==
    /\ areq[r].pc = "defaults"
    /\ LET q == areq[r]
       IN  AddrStep(r, [q EXCEPT
               !.pc = "commit",
               !.existing_defaults =
                   select_defaults(q.user_id,
                       IF q.kind = "update_address" THEN q.address_id ELSE 0)], Idle)
    /\ UNCHANGED addresses

(* session.commit() and the response *)
address_commit(r) ==
    /\ areq[r].pc = "commit"
    /\ LET q == areq[r]
           cleared == Cleared(addresses, q.existing_defaults)
       IN  CASE q.kind = "create_address" ->
                    IF Stale(q.existing_defaults)
                    THEN /\ AddrStep(r, IdleSlot,
                                Respond(q.kind, q, unhandled_error("StaleDataError")))
                         /\ UNCHANGED addresses
                    ELSE LET new_address == Address(q.address_id, q.user_id, q.data)
                         IN  /\ addresses' =
                                    [id \in DOMAIN addresses \cup {q.address_id} |->
                                        IF id = q.address_id THEN new_address
                                        ELSE cleared[id]]
                             /\ AddrStep(r, IdleSlot, Respond(q.kind, q,
                                    [status |-> 201, body |-> new_address]))
             [] q.kind = "update_address" ->
                    IF Stale(q.existing_defaults \cup {q.address_id})
                    THEN /\ AddrStep(r, IdleSlot,
                                Respond(q.kind, q, unhandled_error("StaleDataError")))
                         /\ UNCHANGED addresses
                    ELSE LET address == Written(cleared[q.address_id],
                                                q.data.loaded, q.data.update)
                         IN  /\ addresses' = [cleared EXCEPT ![q.address_id] = address]
                             /\ AddrStep(r, IdleSlot, Respond(q.kind, q,
                                    [status |-> 200, body |-> address]))
             [] q.kind = "delete_address" ->
                    /\ addresses' = [id \in DOMAIN addresses \ {q.address_id} |->
                                        addresses[id]]
                    /\ AddrStep(r, IdleSlot, Respond(q.kind, q, [status |-> 204]))

AddressCreates == [street : Streets, is_default : BOOLEAN]
AddressUpdates ==
    [street : {None} \cup {Some(st) : st \in Streets},
     is_default : {None, Some(TRUE), Some(FALSE)}]

-----------------------------------------------------------------------------
(* app/services/email_service.py.  The handlers hand the sending of an    *)
(* email to BackgroundTasks, which runs it once the response has gone     *)
(* out: the tasks of mail run in the order they were added.  failure is   *)
(* the step of the send that goes wrong, "none" when none does.           *)

SendFailures ==
    {"none", "get_template", "render", "connect", "starttls", "login",
     "send_message"}

(* EmailService._send_email_sync: the message is built and submitted      *)
(* inside try, and any Exception is reported as False                     *)
send_email_sync(failure) ==
    IF failure \in {"connect", "starttls", "login", "send_message"}
    THEN FALSE
    ELSE TRUE

(* EmailService.send_verification_email and send_password_reset_email:    *)
(* the template is loaded and rendered, then send_email is awaited        *)
send_templated_email(failure) ==
    IF failure = "get_template" THEN [raised |-> "TemplateNotFound"]
    ELSE IF failure = "render" THEN [raised |-> "TemplateError"]
    ELSE [raised |-> "no", returned |-> send_email_sync(failure)]

(* the next background task runs *)
background_task_run(failure) ==
    /\ Len(tasks) < Len(mail)
    /\ tasks' = Append(tasks, [task |-> mail[Len(tasks) + 1].task,
                               failure |-> failure,
                               result |-> send_templated_email(failure)])
    /\ UNCHANGED <<now, resp, tokVars, authVars, addrVars, prodVars, orderVars,
                   viewVars, sessVars>>

-----------------------------------------------------------------------------
(* app/database.py: the request-scoped session.  get_async_session is a   *)
(* generator dependency: it opens a session, yields it to the handler     *)
(* and is resumed when the handler has returned or raised.  A slot of     *)
(* sessions holds the session of one request: pc is the position of the   *)
(* generator, open whether the session holds its connection, tx whether   *)
(* a transaction is open on it, fault what the handler raised and raised  *)
(* what the generator lets out.  The faults are the Exception subclasses  *)
(* a handler raises or lets through.                                      *)

SessionSlots == {"a", "b"}
Faults == {"ValidationException", "IntegrityError", "HTTPException"}

NoSession ==
    [pc |-> "idle", open |-> FALSE, tx |-> "none", committed |-> FALSE,
     rolled_back |-> FALSE, fault |-> None, raised |-> None]

SessionStep(r, session) ==
    /\ sessions' = [sessions EXCEPT ![r] = session]
    /\ UNCHANGED <<now, resp, tokVars, authVars, addrVars, prodVars, orderVars,
                   viewVars, taskVars>>

(* async with async_session_maker() as session: ... yield session *)
get_async_session_yield(r) ==
    /\ sessions[r].pc \in {"idle", "exited"}
    /\ SessionStep(r, [NoSession EXCEPT !.pc = "yielded", !.open = TRUE])

(* the handler runs a statement: the session begins a transaction *)
handler_execute(r) ==
    /\ sessions[r].pc = "yielded"
    /\ sessions[r].tx = "none"
    /\ SessionStep(r, [sessions[r] EXCEPT !.tx = "begun"])

(* the handler commits: commits are the handler's to make *)
handler_commit(r) ==
    /\ sessions[r].pc = "yielded"
    /\ sessions[r].tx = "begun"
    /\ SessionStep(r, [sessions[r] EXCEPT !.tx = "none", !.committed = TRUE])

(* the handler returns: the generator is resumed after the yield *)
handler_return(r) ==
    /\ sessions[r].pc = "yielded"
    /\ SessionStep(r, [sessions[r] EXCEPT !.pc = "finally"])

(* the handler raises: the fault is thrown into the generator at the yield *)
handler_raise(r, fault) ==
    /\ sessions[r].pc = "yielded"
    /\ SessionStep(r, [sessions[r] EXCEPT !.pc = "except", !.fault = Some(fault)])

(* the except clause re-raising without the rollback *)
get_async_session_except_no_rollback(r) ==
    /\ sessions[r].pc = "except"
    /\ SessionStep(r, [sessions[r] EXCEPT !.pc = "finally",
                                          !.raised = sessions[r].fault])

(* except Exception: await session.rollback(); raise *)
get_async_session_except(r) ==
    /\ sessions[r].pc = "except"
    /\ SessionStep(r, [sessions[r] EXCEPT !.pc = "finally", !.tx = "none",
                                          !.rolled_back = TRUE,
                                          !.raised = sessions[r].fault])

(* finally: await session.close(), which gives the connection back and    *)
(* discards a transaction still open; the async with block closes the     *)
(* closed session once more                                               *)
get_async_session_finally(r) ==
    /\ sessions[r].pc = "finally"
    /\ SessionStep(r, [sessions[r] EXCEPT !.pc = "exited", !.open = FALSE,
                                          !.tx = "none"])

-----------------------------------------------------------------------------
(* app/dependencies.py: the caller of a route.  authorization is the      *)
(* request's Authorization header, None when there is none and            *)
(* Some(token) for "Bearer <token>".  A dependency yields either the      *)
(* fault it raised, with the response made of it, or its value.           *)

(* FastAPI's default rendering of an HTTPException *)
http_exception_handler(status_code, detail) ==
    [status |-> status_code, detail |-> detail]

(* security = HTTPBearer(), auto_error left at its default: a request     *)
(* without credentials is refused before any dependant runs.  The status  *)
(* of that refusal is the installed FastAPI release's, 403 in the older   *)
(* releases and 401 in the newer; the repository does not pin one.        *)
NotAuthenticated == {401, 403}

security(authorization, not_authenticated) ==
    IF ~authorization.some
    THEN [raised |-> "HTTPException",
          out |-> http_exception_handler(not_authenticated, "Not authenticated")]
    ELSE [raised |-> "no", credentials |-> authorization.val]

(* AuthService.get_current_user: the user the access token names, if any *)
auth_service_get_current_user(token) ==
    LET payload == verify_access_token(token, now)
    IN  IF ~payload.some THEN None
        ELSE get_user_by_email(payload.val.sub)

get_current_user(authorization, not_authenticated) ==
    LET credentials == security(authorization, not_authenticated)
    IN  IF credentials.raised # "no" THEN credentials
        ELSE LET user == auth_service_get_current_user(credentials.credentials)
             IN  IF ~user.some
                 THEN [raised |-> "UnauthorizedException",
                       out |-> unauthorized_exception_handler(
                                   "Invalid authentication credentials")]
                 ELSE [raised |-> "no", user |-> user.val]

(* get_current_user resolved to the stored user user_id *)
signed_in(user_id) == [raised |-> "no", user |-> users[user_id]]

(* current_user is what Depends(get_current_user) yielded *)
get_current_active_user(current_user) ==
    IF current_user.raised # "no" THEN current_user
    ELSE IF ~current_user.user.is_active
    THEN [raised |-> "UnauthorizedException",
          out |-> unauthorized_exception_handler("Inactive user")]
    ELSE current_user

(* current_user is what Depends(get_current_user) yielded *)
get_current_admin_user(current_user) ==
    LET active_user == get_current_active_user(current_user)
    IN  IF active_user.raised # "no" THEN active_user
        ELSE IF ~active_user.user.is_admin
        THEN [raised |-> "HTTPException",
              out |-> http_exception_handler(403, "Not enough permissions")]
        ELSE active_user

(* get_optional_current_user()'s _get_optional_user: Depends(security)    *)
(* runs first and refuses a request without credentials, so the           *)
(* "if not credentials" branch is never taken; any fault of the lookup    *)
(* is swallowed                                                           *)
get_optional_current_user(authorization, not_authenticated) ==
    LET credentials == security(authorization, not_authenticated)
    IN  IF credentials.raised # "no" THEN credentials
        ELSE [raised |-> "no",
              user |-> auth_service_get_current_user(credentials.credentials)]

(* the access token login issues to a stored user, issued at time t *)
access_token_of(user_id, t) ==
    create_access_token([sub |-> users[user_id].email, user_id |-> user_id], t)

-----------------------------------------------------------------------------
(* app/api/auth.py and app/api/users.py: the account routes *)

(* update_password committing the new hash before the length check *)
update_password_late_check(user, new_password, salt) ==
    LET stored == [users EXCEPT ![user.id].password_hash =
                       get_password_hash(new_password, salt)]
    IN  IF Len(new_password) < MIN_PASSWORD_LENGTH
        THEN [raised |-> "ValidationException",
              detail |-> "Password must be at least 8 characters long",
              users |-> stored]
        ELSE [raised |-> "no", users |-> stored]

(* AuthService.update_password: the length check, then the new hash is    *)
(* assigned and committed; users is the table the call leaves behind      *)
update_password(user, new_password, salt) ==
    IF Len(new_password) < MIN_PASSWORD_LENGTH
    THEN [raised |-> "ValidationException",
          detail |-> "Password must be at least 8 characters long",
          users |-> users]
    ELSE [raised |-> "no",
          users |-> [users EXCEPT ![user.id].password_hash =
                         get_password_hash(new_password, salt)]]

verify_password_reset_token(token, t) ==
    LET payload == verify_token(token, "password_reset", t).payload
    IN  IF payload.some THEN Some(payload.val.sub) ELSE None

verify_email_verification_token(token, t) ==
    LET payload == verify_token(token, "email_verification", t).payload
    IN  IF payload.some THEN Some(payload.val.sub) ELSE None

AccountStep(response) ==
    /\ resp' = response
    /\ UNCHANGED <<now, mail, tokVars, addrVars, prodVars, orderVars, viewVars, sessVars, taskVars>>

(* refresh_token with the account's active flag left unread *)
refresh_token_any_user(token_data) ==
    LET payload == verify_refresh_token(token_data.refresh_token, now)
        user == IF payload.some THEN get_user_by_email(payload.val.sub) ELSE None
    IN  /\ IF ~payload.some
           THEN AccountStep(Respond("refresh_token", token_data,
                    unauthorized_exception_handler("Invalid refresh token")))
           ELSE IF ~user.some
           THEN AccountStep(Respond("refresh_token", token_data,
                    unauthorized_exception_handler("User not found or inactive")))
           ELSE LET token == [sub |-> user.val.email, user_id |-> user.val.id]
                IN  AccountStep(Respond("refresh_token", token_data,
                        [status |-> 200,
                         body |-> [access_token |-> create_access_token(token, now),
                                   refresh_token |-> create_refresh_token(token, now),
                                   token_type |-> "bearer"]]))
        /\ UNCHANGED users

(* POST /auth/refresh *)
refresh_token(token_data) ==
    LET payload == verify_refresh_token(token_data.refresh_token, now)
        user == IF payload.some THEN get_user_by_email(payload.val.sub) ELSE None
    IN  /\ IF ~payload.some
           THEN AccountStep(Respond("refresh_token", token_data,
                    unauthorized_exception_handler("Invalid refresh token")))
           ELSE IF ~user.some \/ ~user.val.is_active
           THEN AccountStep(Respond("refresh_token", token_data,
                    unauthorized_exception_handler("User not found or inactive")))
           ELSE LET token == [sub |-> user.val.email, user_id |-> user.val.id]
                IN  AccountStep(Respond("refresh_token", token_data,
                        [status |-> 200,
                         body |-> [access_token |-> create_access_token(token, now),
                                   refresh_token |-> create_refresh_token(token, now),
                                   token_type |-> "bearer"]]))
        /\ UNCHANGED users

(* POST /auth/logout: the tokens stay valid, the client drops them *)
logout(authorization, not_authenticated) ==
    LET req == [authorization |-> authorization]
        current_user == get_current_active_user(
                            get_current_user(authorization, not_authenticated))
    IN  /\ IF current_user.raised # "no"
           THEN AccountStep(Respond("logout", req, current_user.out))
           ELSE AccountStep(Respond("logout", req,
                    no_content([message |-> "Successfully logged out"])))
        /\ UNCHANGED users

(* POST /auth/reset-password *)
reset_password(request_data, salt) ==
    LET email == verify_password_reset_token(request_data.token, now)
        user == IF email.some THEN get_user_by_email(email.val) ELSE None
    IN  IF ~email.some
        THEN /\ AccountStep(Respond("reset_password", request_data,
                    unauthorized_exception_handler("Invalid or expired reset token")))
             /\ UNCHANGED users
        ELSE IF ~user.some \/ ~user.val.is_active
        THEN /\ AccountStep(Respond("reset_password", request_data,
                    unauthorized_exception_handler("User not found or inactive")))
             /\ UNCHANGED users
        ELSE LET updated == update_password(user.val, request_data.new_password, salt)
             IN  IF updated.raised # "no"
                 THEN /\ AccountStep(Respond("reset_password", request_data,
                             validation_exception_handler(updated.detail)))
                      /\ users' = updated.users
                 ELSE /\ users' = updated.users
                      /\ AccountStep(Respond("reset_password", request_data,
                             no_content([message |-> "Password successfully reset"])))

(* POST /auth/verify-email *)
verify_email(token) ==
    LET req == [token |-> token]
        email == verify_email_verification_token(token, now)
        user == IF email.some THEN get_user_by_email(email.val) ELSE None
    IN  IF ~email.some
        THEN /\ AccountStep(Respond("verify_email", req,
                    unauthorized_exception_handler(
                        "Invalid or expired verification token")))
             /\ UNCHANGED users
        ELSE IF ~user.some
        THEN /\ AccountStep(Respond("verify_email", req,
                    unauthorized_exception_handler("User not found")))
             /\ UNCHANGED users
        ELSE /\ users' = [users EXCEPT ![user.val.id].is_verified = TRUE]
             /\ AccountStep(Respond("verify_email", req,
                    no_content([message |-> "Email successfully verified"])))

(* GET /users/me and GET /auth/me *)
get_my_profile(authorization, not_authenticated) ==
    LET req == [authorization |-> authorization]
        current_user == get_current_active_user(
                            get_current_user(authorization, not_authenticated))
    IN  /\ IF current_user.raised # "no"
           THEN AccountStep(Respond("get_my_profile", req, current_user.out))
           ELSE AccountStep(Respond("get_my_profile", req,
                    [status |-> 200, body |-> UserResponse(current_user.user)]))
        /\ UNCHANGED users

(* a profile schema that keeps every key of the body *)
UserProfileUpdate_extra_allowed(body) == body

(* app/schemas/user.py UserProfileUpdate: first_name, last_name and       *)
(* phone; any other key of the body is ignored                            *)
UserProfileUpdate(body) ==
    [f \in DOMAIN body \cap {"first_name", "last_name", "phone"} |-> body[f]]

(* PUT /users/me: the fields of the schema that the request sets          *)
(* (model_dump(exclude_unset=True)) are written to the row                *)
update_my_profile(authorization, not_authenticated, body) ==
    LET req == [authorization |-> authorization, body |-> body]
        current_user == get_current_active_user(
                            get_current_user(authorization, not_authenticated))
        profile_data == UserProfileUpdate(body)
    IN  IF current_user.raised # "no"
        THEN /\ AccountStep(Respond("update_my_profile", req, current_user.out))
             /\ UNCHANGED users
        ELSE LET row == [f \in DOMAIN current_user.user |->
                            IF f \in DOMAIN profile_data THEN profile_data[f]
                            ELSE current_user.user[f]]
             IN  /\ users' = [users EXCEPT ![row.id] = row]
                 /\ AccountStep(Respond("update_my_profile", req,
                        [status |-> 200, body |-> UserResponse(row)]))

(* POST /users/change-password *)
change_password(authorization, not_authenticated, password_data, salt) ==
    LET req == [authorization |-> authorization, password_data |-> password_data]
        current_user == get_current_active_user(
                            get_current_user(authorization, not_authenticated))
    IN  IF current_user.raised # "no"
        THEN /\ AccountStep(Respond("change_password", req, current_user.out))
             /\ UNCHANGED users
        ELSE IF ~verify_password(password_data.current_password,
                                 current_user.user.password_hash)
        THEN /\ AccountStep(Respond("change_password", req,
                    validation_exception_handler("Current password is incorrect")))
             /\ UNCHANGED users
        ELSE LET updated == update_password(current_user.user,
                                password_data.new_password, salt)
             IN  IF updated.raised # "no"
                 THEN /\ AccountStep(Respond("change_password", req,
                             validation_exception_handler(updated.detail)))
                      /\ users' = updated.users
                 ELSE /\ users' = updated.users
                      /\ AccountStep(Respond("change_password", req,
                             no_content([message |-> "Password successfully changed"])))

(* No route of the application clears is_active; an account is            *)
(* deactivated from outside, in the database.                             *)
account_deactivated(user_id) ==
    /\ user_id \in 1..Len(users)
    /\ users[user_id].is_active
    /\ users' = [users EXCEPT ![user_id].is_active = FALSE]
    /\ resp' = Idle
    /\ UNCHANGED <<now, mail, tokVars, addrVars, prodVars, orderVars, viewVars, sessVars, taskVars>>

-----------------------------------------------------------------------------
(* app/models/product.py, app/api/products.py: the catalog.  Text is a    *)
(* sequence of characters, prices are in cents, rating_average is in      *)
(* hundredths (Numeric(3, 2)).                                            *)

MaxViews == 2
MaxProducts == 2

ProductIds == {1, 2, 3}
Categories == {"kitchen", "home"}

(* app/models/product.py: a Product row with the column defaults; the     *)
(* rows of the model take their slug and SKU from the name                *)
Product(id, name, description, category_id, price, stock_quantity, is_featured, t) ==
    [id |-> id, name |-> name, description |-> description,
     short_description |-> None, category_id |-> category_id,
     price |-> price, stock_quantity |-> stock_quantity,
     is_active |-> TRUE, is_featured |-> is_featured,
     view_count |-> 0, rating_average |-> 0, rating_count |-> 0,
     created_at |-> t, updated_at |-> t,
     slug |-> name, sku |-> name]

(* the UPDATE a session flushes for a product it has loaded: the columns  *)
(* whose assigned value differs from the loaded one, and with them        *)
(* updated_at (onupdate=datetime.utcnow); nothing when no column differs  *)
product_flush(row, changes) ==
    IF DOMAIN changes = {} THEN row
    ELSE [f \in DOMAIN row |->
            IF f \in DOMAIN changes THEN changes[f]
            ELSE IF f = "updated_at" THEN now
            ELSE row[f]]
changes_of(loaded, assigned) ==
    [f \in {g \in DOMAIN assigned : assigned[g] # loaded[g]} |-> assigned[f]]

(* a lookup that does not look at is_active *)
select_active_product_any(product_id) ==
    IF product_id \in DOMAIN products THEN Some(products[product_id]) ELSE None

(* select(Product).where(id == product_id).where(is_active == True) *)
select_active_product(product_id) ==
    IF product_id \in DOMAIN products /\ products[product_id].is_active
    THEN Some(products[product_id])
    ELSE None

(* select(Product).where(id == product_id) *)
select_product(product_id) ==
    IF product_id \in DOMAIN products THEN Some(products[product_id]) ELSE None

(* a lookup by a column that sees the active products only *)
select_product_by_active(column, value) ==
    {id \in DOMAIN products :
        products[id][column] = value /\ products[id].is_active}

(* select(Product).where(Product.sku == product_data.sku), and the same   *)
(* for the slug: the rows of any product, active or not                   *)
select_product_by(column, value) ==
    {id \in DOMAIN products : products[id][column] = value}

(* the unique indexes on products.sku and products.slug: the row as it    *)
(* would be stored collides with another row                              *)
unique_violation(row) ==
    \E id \in DOMAIN products \ {row.id} :
        products[id].sku = row.sku \/ products[id].slug = row.slug

(* model_dump(exclude_unset=True): the fields a request supplies *)
update_data_of(product_data) ==
    [f \in {g \in DOMAIN product_data : product_data[g].some} |-> product_data[f].val]

(* app/services/search_service.py: the search index holds one document    *)
(* per indexed product id.  A call that fails (Elasticsearch unreachable) *)
(* is logged and swallowed, leaving the index as it was.                  *)
SearchDocument(product) ==
    [id |-> product.id, is_active |-> product.is_active]
index_product(product, reached) ==
    IF ~reached THEN search
    ELSE [id \in DOMAIN search \cup {product.id} |->
            IF id = product.id THEN SearchDocument(product) ELSE search[id]]
search_delete_product(product_id, reached) ==
    IF ~reached THEN search
    ELSE [id \in DOMAIN search \ {product_id} |-> search[id]]

ProductStep(response) ==
    /\ resp' = response
    /\ UNCHANGED <<now, tokVars, authVars, addrVars, reviews, rreq, orderVars, viewVars, sessVars, taskVars>>

(* GET /products/{product_id} *)
get_product(authorization, not_authenticated, product_id) ==
    LET req == [authorization |-> authorization, product_id |-> product_id]
        current_user == get_optional_current_user(authorization, not_authenticated)
        product == select_active_product(product_id)
    IN  IF current_user.raised # "no"
        THEN /\ ProductStep(Respond("get_product", req, current_user.out))
             /\ UNCHANGED <<products, search>>
        ELSE IF ~product.some
        THEN /\ ProductStep(Respond("get_product", req,
                    not_found_exception_handler("Product not found")))
             /\ UNCHANGED <<products, search>>
        ELSE /\ product.val.view_count < MaxViews
             /\ LET row == product_flush(product.val, changes_of(product.val,
                               [view_count |-> product.val.view_count + 1]))
                IN  /\ products' = [products EXCEPT ![product_id] = row]
                    /\ ProductStep(Respond("get_product", req,
                           [status |-> 200, body |-> row]))
                    /\ UNCHANGED search

(* GET /products/{product_id} as the event loop runs it: the handler is   *)
(* suspended at the SELECT and at the COMMIT, and other requests run in   *)
(* between.  A request in flight occupies a slot of vreq.                 *)
ViewSlots == {"a", "b"}

ViewStep(v, slot, response) ==
    /\ vreq' = [vreq EXCEPT ![v] = slot]
    /\ resp' = response
    /\ UNCHANGED <<now, tokVars, authVars, addrVars, reviews, rreq, search, orderVars, sessVars, taskVars>>

(* the dependencies are resolved *)
get_product_begin(v, authorization, not_authenticated, product_id, serial) ==
    /\ vreq[v].pc = "idle"
    /\ serial => Quiet(ViewSlots, vreq)
    /\ LET q == [pc |-> "select", authorization |-> authorization,
                 product_id |-> product_id, product |-> None]
           current_user == get_optional_current_user(authorization, not_authenticated)
       IN  IF current_user.raised # "no"
           THEN ViewStep(v, IdleSlot, Respond("get_product", q, current_user.out))
           ELSE ViewStep(v, q, Idle)
    /\ UNCHANGED products

(* session.execute(query): the row as it is read *)
get_product_select(v) ==
    /\ vreq[v].pc = "select"
    /\ LET q == vreq[v]
           product == select_active_product(q.product_id)
       IN  IF ~product.some
           THEN ViewStep(v, IdleSlot, Respond("get_product", q,
                    not_found_exception_handler("Product not found")))
           ELSE /\ product.val.view_count < MaxViews
                /\ ViewStep(v, [q EXCEPT !.pc = "commit", !.product = product], Idle)
    /\ UNCHANGED products

(* product.view_count += 1 on the loaded object, then session.commit():   *)
(* UPDATE products SET view_count = <loaded value + 1>                    *)
get_product_commit(v) ==
    /\ vreq[v].pc = "commit"
    /\ LET q == vreq[v]
           loaded == q.product.val
           changes == changes_of(loaded, [view_count |-> loaded.view_count + 1])
       IN  /\ products' = [products EXCEPT ![q.product_id] = product_flush(@, changes)]
           /\ ViewStep(v, IdleSlot, Respond("get_product", q,
                  [status |-> 200, body |-> product_flush(loaded, changes)]))

(* POST /products *)
create_product(authorization, not_authenticated, product_data, reached) ==
    LET req == [authorization |-> authorization, product_data |-> product_data]
        current_user == get_current_admin_user(
                            get_current_user(authorization, not_authenticated))
    IN  IF current_user.raised # "no"
        THEN /\ ProductStep(Respond("create_product", req, current_user.out))
             /\ UNCHANGED <<products, search>>
        ELSE IF select_product_by("sku", product_data.sku) # {}
        THEN /\ ProductStep(Respond("create_product", req,
                    validation_exception_handler("SKU already exists")))
             /\ UNCHANGED <<products, search>>
        ELSE IF select_product_by("slug", product_data.slug) # {}
        THEN /\ ProductStep(Respond("create_product", req,
                    validation_exception_handler("Slug already exists")))
             /\ UNCHANGED <<products, search>>
        ELSE /\ Cardinality(DOMAIN products) < MaxProducts
             /\ LET id == CHOOSE i \in ProductIds \ DOMAIN products :
                              \A j \in ProductIds \ DOMAIN products : i <= j
                    row == [Product(id, product_data.name, None,
                                    product_data.category_id, product_data.price,
                                    product_data.stock_quantity, FALSE, now)
                                EXCEPT !.sku = product_data.sku,
                                       !.slug = product_data.slug]
                IN  /\ products' = [i \in DOMAIN products \cup {id} |->
                                       IF i = id THEN row ELSE products[i]]
                    /\ search' = index_product(row, reached)
                    /\ ProductStep(Respond("create_product", req,
                           [status |-> 201, body |-> row]))

(* POST /products/{product_id}/images: the upload itself is commented out *)
(* in the handler, which commits nothing and reports the number of files  *)
upload_product_images(authorization, not_authenticated, product_id, files) ==
    LET req == [authorization |-> authorization, product_id |-> product_id,
                files |-> files]
        current_user == get_current_admin_user(
                            get_current_user(authorization, not_authenticated))
        product == select_product(product_id)
    IN  /\ IF current_user.raised # "no"
           THEN ProductStep(Respond("upload_product_images", req, current_user.out))
           ELSE IF ~product.some
           THEN ProductStep(Respond("upload_product_images", req,
                    not_found_exception_handler("Product not found")))
           ELSE ProductStep(Respond("upload_product_images", req,
                    [status |-> 201, body |-> [uploaded |-> files]]))
        /\ UNCHANGED <<products, search>>

(* PUT /products/{product_id}: the handler looks for no other product    *)
(* with the SKU or slug it assigns; the commit fails on the unique        *)
(* indexes, and no handler is registered for the IntegrityError           *)
update_product(authorization, not_authenticated, product_id, product_data, reached) ==
    LET req == [authorization |-> authorization, product_id |-> product_id,
                product_data |-> product_data]
        current_user == get_current_admin_user(
                            get_current_user(authorization, not_authenticated))
        product == select_product(product_id)
    IN  IF current_user.raised # "no"
        THEN /\ ProductStep(Respond("update_product", req, current_user.out))
             /\ UNCHANGED <<products, search>>
        ELSE IF ~product.some
        THEN /\ ProductStep(Respond("update_product", req,
                    not_found_exception_handler("Product not found")))
             /\ UNCHANGED <<products, search>>
        ELSE LET row == product_flush(product.val,
                            changes_of(product.val, update_data_of(product_data)))
             IN  IF unique_violation(row)
                 THEN /\ ProductStep(Respond("update_product", req,
                             unhandled_error("IntegrityError")))
                      /\ UNCHANGED <<products, search>>
                 ELSE /\ products' = [products EXCEPT ![product_id] = row]
                      /\ search' = index_product(row, reached)
                      /\ ProductStep(Respond("update_product", req,
                             [status |-> 200, body |-> row]))

(* DELETE /products/{product_id}: the soft delete *)
delete_product(authorization, not_authenticated, product_id, reached) ==
    LET req == [authorization |-> authorization, product_id |-> product_id]
        current_user == get_current_admin_user(
                            get_current_user(authorization, not_authenticated))
        product == select_product(product_id)
    IN  IF current_user.raised # "no"
        THEN /\ ProductStep(Respond("delete_product", req, current_user.out))
             /\ UNCHANGED <<products, search>>
        ELSE IF ~product.some
        THEN /\ ProductStep(Respond("delete_product", req,
                    not_found_exception_handler("Product not found")))
             /\ UNCHANGED <<products, search>>
        ELSE LET row == product_flush(product.val,
                            changes_of(product.val, [is_active |-> FALSE]))
             IN  /\ products' = [products EXCEPT ![product_id] = row]
                 /\ search' = search_delete_product(product_id, reached)
                 /\ ProductStep(Respond("delete_product", req, [status |-> 204]))

(* ILIKE: LIKE over the case-folded pattern and text; % matches any run   *)
(* of characters, _ any one character; a NULL column matches nothing      *)
Lowered == ("J" :> "j") @@ ("L" :> "l") @@ ("M" :> "m") @@ ("R" :> "r")
         @@ ("U" :> "u") @@ ("G" :> "g")
lower(c) == IF c \in DOMAIN Lowered THEN Lowered[c] ELSE c
lower_text(text) == [i \in 1..Len(text) |-> lower(text[i])]

RECURSIVE like(_, _)
like(pattern, text) ==
    IF pattern = <<>> THEN text = <<>>
    ELSE IF Head(pattern) = "%"
    THEN \/ like(Tail(pattern), text)
         \/ text # <<>> /\ like(pattern, Tail(text))
    ELSE /\ text # <<>>
         /\ Head(pattern) = "_" \/ Head(pattern) = Head(text)
         /\ like(Tail(pattern), Tail(text))

ilike(column, pattern) ==
    column.some /\ like(lower_text(pattern), lower_text(column.val))

(* the ordering of the name column: by character, case folded *)
Alphabet == <<"a", "g", "j", "l", "m", "p", "r", "u">>
rank(c) == CHOOSE i \in 1..Len(Alphabet) : Alphabet[i] = lower(c)
RECURSIVE text_less(_, _)
text_less(a, b) ==
    IF b = <<>> THEN FALSE
    ELSE IF a = <<>> THEN TRUE
    ELSE IF rank(Head(a)) # rank(Head(b)) THEN rank(Head(a)) < rank(Head(b))
    ELSE text_less(Tail(a), Tail(b))

(* Query(..., ge=1, le=100) and Query(..., ge=0): the bounds FastAPI      *)
(* enforces on the query parameters before the handler runs               *)
PAGE_SIZE_LE == 100
request_validation_error ==
    [status |-> 422, detail |-> "Unprocessable Entity"]
query_valid(params) ==
    /\ params.page >= 1
    /\ params.page_size >= 1 /\ params.page_size <= PAGE_SIZE_LE
    /\ params.min_price.some => params.min_price.val >= 0
    /\ params.max_price.some => params.max_price.val >= 0

(* the filters without the upper price bound *)
product_filters_no_ceiling(product, params) ==
    /\ product.is_active
    /\ params.category_id.some => product.category_id = params.category_id.val
    /\ (params.q.some /\ params.q.val # <<>>) =>
           LET pattern == <<"%">> \o params.q.val \o <<"%">>
           IN  \/ ilike(Some(product.name), pattern)
               \/ ilike(product.description, pattern)
               \/ ilike(product.short_description, pattern)
    /\ params.min_price.some => product.price >= params.min_price.val
    /\ params.in_stock_only => product.stock_quantity > 0
    /\ params.featured_only => product.is_featured

(* .where(Product.is_active == True) and the filters appended for the     *)
(* parameters that are supplied                                           *)
product_filters(product, params) ==
    /\ product.is_active
    /\ params.category_id.some => product.category_id = params.category_id.val
    /\ (params.q.some /\ params.q.val # <<>>) =>
           LET pattern == <<"%">> \o params.q.val \o <<"%">>
           IN  \/ ilike(Some(product.name), pattern)
               \/ ilike(product.description, pattern)
               \/ ilike(product.short_description, pattern)
    /\ params.min_price.some => product.price >= params.min_price.val
    /\ params.max_price.some => product.price <= params.max_price.val
    /\ params.in_stock_only => product.stock_quantity > 0
    /\ params.featured_only => product.is_featured

(* order_by: whether row a must come before row b *)
sorts_before(a, b, sort_by) ==
    CASE sort_by = "name" -> text_less(a.name, b.name)
      [] sort_by = "price_asc" -> a.price < b.price
      [] sort_by = "price_desc" -> a.price > b.price
      [] sort_by = "rating" -> a.rating_average > b.rating_average
      [] OTHER -> a.created_at > b.created_at

(* the orders in which the database may return the rows: any arrangement  *)
(* that respects the sort key, rows with equal keys in either order       *)
RECURSIVE result_orders(_, _)
result_orders(ids, sort_by) ==
    IF ids = {} THEN {<<>>}
    ELSE UNION {{<<first>> \o rest : rest \in result_orders(ids \ {first}, sort_by)} :
                first \in {i \in ids : \A j \in ids :
                              ~sorts_before(products[j], products[i], sort_by)}}

(* .offset(offset).limit(page_size) *)
page_of(rows, offset, limit) ==
    [i \in 1..(IF Len(rows) - offset > limit THEN limit
               ELSE IF Len(rows) - offset > 0 THEN Len(rows) - offset
               ELSE 0) |-> rows[offset + i]]

(* app/schemas/product.py *)
ProductListResponse(product) ==
    [id |-> product.id, name |-> product.name, price |-> product.price,
     stock_quantity |-> product.stock_quantity,
     is_featured |-> product.is_featured,
     rating_average |-> product.rating_average,
     rating_count |-> product.rating_count,
     is_in_stock |-> product.stock_quantity > 0]

(* GET /products *)
get_products(params) ==
    /\ IF ~query_valid(params)
       THEN resp' = Respond("get_products", params, request_validation_error)
       ELSE LET matching == {id \in DOMAIN products :
                                product_filters(products[id], params)}
                count == Cardinality(matching)
                total_count == IF count = 0 THEN 1 ELSE count
                offset == (params.page - 1) * params.page_size
            IN  \E rows \in result_orders(matching, params.sort_by) :
                    LET page == page_of(rows, offset, params.page_size)
                    IN  resp' = Respond("get_products", params,
                            [status |-> 200,
                             body |-> [products |->
                                           [i \in DOMAIN page |->
                                               ProductListResponse(products[page[i]])],
                                       total_count |-> total_count,
                                       page |-> params.page,
                                       page_size |-> params.page_size,
                                       total_pages |->
                                           (total_count + params.page_size - 1)
                                               \div params.page_size]])
    /\ UNCHANGED <<now, tokVars, authVars, addrVars, prodVars, orderVars, viewVars, sessVars, taskVars>>

-----------------------------------------------------------------------------
(* app/api/products.py: create_product_review, suspended at each awaited  *)
(* database call like the address routes; a request in flight occupies a  *)
(* slot of rreq.                                                          *)

ReviewSlots == {"a", "b"}
Ratings == {4, 5}

(* app/models/product.py: a ProductReview row with the column defaults *)
ProductReview(id, product_id, user_id, rating) ==
    [id |-> id, product_id |-> product_id, user_id |-> user_id,
     rating |-> rating, is_approved |-> TRUE]

(* select(ProductReview).where(product_id == ...).where(user_id == ...) *)
select_reviews(product_id, user_id) ==
    {i \in DOMAIN reviews :
        reviews[i].product_id = product_id /\ reviews[i].user_id = user_id}

RECURSIVE sum_ratings(_)
sum_ratings(ids) ==
    IF ids = {} THEN 0
    ELSE LET i == CHOOSE j \in ids : TRUE
         IN  reviews[i].rating + sum_ratings(ids \ {i})

(* the aggregate taken over every review of the product *)
select_rating_unmoderated(product_id) ==
    LET ids == {i \in DOMAIN reviews : reviews[i].product_id = product_id}
    IN  [sum |-> sum_ratings(ids), count |-> Cardinality(ids)]

(* select(func.avg(rating), func.count(id)).where(product_id == ...)      *)
(* .where(is_approved == True); the average is kept as sum over count     *)
select_rating(product_id) ==
    LET ids == {i \in DOMAIN reviews :
                   reviews[i].product_id = product_id /\ reviews[i].is_approved}
    IN  [sum |-> sum_ratings(ids), count |-> Cardinality(ids)]

(* a value stored in a Numeric(_, 2) column: sum / count rounded to the   *)
(* nearest hundredth, halves away from zero                               *)
numeric_2(sum, count) == (200 * sum + count) \div (2 * count)

(* the assignments product.rating_average = avg_rating and                *)
(* product.rating_count = count or 0, as the columns the flush writes     *)
rating_changes(loaded, rating) ==
    [f \in (IF loaded.rating_average * rating.count # 100 * rating.sum
            THEN {"rating_average"} ELSE {})
           \cup (IF loaded.rating_count # rating.count
                 THEN {"rating_count"} ELSE {}) |->
        IF f = "rating_average" THEN numeric_2(rating.sum, rating.count)
        ELSE rating.count]

ReviewStep(r, slot, response) ==
    /\ rreq' = [rreq EXCEPT ![r] = slot]
    /\ resp' = response
    /\ UNCHANGED <<now, tokVars, authVars, addrVars, search, orderVars, viewVars, sessVars, taskVars>>

(* POST /products/{product_id}/reviews: the dependencies are resolved *)
create_product_review_begin(r, user_id, product_id, review_data, serial) ==
    /\ rreq[r].pc = "idle"
    /\ serial => Quiet(ReviewSlots, rreq)
    /\ LET q == [pc |-> "product", user_id |-> user_id, product_id |-> product_id,
                 data |-> review_data, product |-> None, review_id |-> 0,
                 rating |-> [sum |-> 0, count |-> 0]]
           current_user == get_current_active_user(signed_in(user_id))
       IN  IF current_user.raised # "no"
           THEN ReviewStep(r, IdleSlot,
                    Respond("create_product_review", q, current_user.out))
           ELSE ReviewStep(r, q, Idle)
    /\ UNCHANGED <<products, reviews>>

(* "Verify product exists": session.get(Product, product_id) *)
review_product(r) ==
    /\ rreq[r].pc = "product"
    /\ LET q == rreq[r]
           product == select_product(q.product_id)
       IN  IF ~product.some \/ ~product.val.is_active
           THEN ReviewStep(r, IdleSlot, Respond("create_product_review", q,
                    not_found_exception_handler("Product not found")))
           ELSE ReviewStep(r, [q EXCEPT !.pc = "existing", !.product = product], Idle)
    /\ UNCHANGED <<products, reviews>>

(* "Check if user already reviewed this product": scalar_one_or_none() *)
review_existing(r) ==
    /\ rreq[r].pc = "existing"
    /\ LET q == rreq[r]
           existing_review == select_reviews(q.product_id, q.user_id)
       IN  IF Cardinality(existing_review) > 1
           THEN ReviewStep(r, IdleSlot, Respond("create_product_review", q,
                    unhandled_error("MultipleResultsFound")))
           ELSE IF existing_review # {}
           THEN ReviewStep(r, IdleSlot, Respond("create_product_review", q,
                    validation_exception_handler(
                        "You have already reviewed this product")))
           ELSE ReviewStep(r, [q EXCEPT !.pc = "insert"], Idle)
    /\ UNCHANGED <<products, reviews>>

(* "Create review": session.add(review) and the first commit *)
review_insert(r) ==
    /\ rreq[r].pc = "insert"
    /\ LET q == rreq[r]
           review == ProductReview(Len(reviews) + 1, q.product_id, q.user_id,
                                   q.data.rating)
       IN  /\ reviews' = Append(reviews, review)
           /\ ReviewStep(r, [q EXCEPT !.pc = "rating", !.review_id = review.id], Idle)
    /\ UNCHANGED products

(* "Update product rating": the aggregate is read *)
review_rating(r) ==
    /\ rreq[r].pc = "rating"
    /\ LET q == rreq[r]
       IN  ReviewStep(r, [q EXCEPT !.pc = "commit",
                                   !.rating = select_rating(q.product_id)], Idle)
    /\ UNCHANGED <<products, reviews>>

(* the second commit and the response *)
review_commit(r) ==
    /\ rreq[r].pc = "commit"
    /\ LET q == rreq[r]
       IN  IF q.rating.count = 0
           THEN /\ ReviewStep(r, IdleSlot, Respond("create_product_review", q,
                       unhandled_error("IntegrityError")))
                /\ UNCHANGED products
           ELSE /\ products' = [products EXCEPT ![q.product_id] =
                       product_flush(@, rating_changes(q.product.val, q.rating))]
                /\ ReviewStep(r, IdleSlot, Respond("create_product_review", q,
                       [status |-> 201, body |-> reviews[q.review_id]]))
    /\ UNCHANGED reviews

-----------------------------------------------------------------------------
(* app/utils/helpers.py: calculate_shipping.  Weights are counted in      *)
(* tenths, costs in thousandths and multipliers in tenths, so that a      *)
(* shipping cost, the product of a cost and a multiplier, is counted in   *)
(* ten-thousandths (10.776 is 107760).  Decimal arithmetic is exact.      *)

MaxWeight == 110

base_cost == 5990

(* the weight bands with their upper ends left out *)
weight_cost_exclusive(weight) ==
    IF weight < 10 THEN 0
    ELSE IF weight < 50 THEN 2990
    ELSE IF weight < 100 THEN 5990
    ELSE weight * 99

(* "Simple weight-based calculation" *)
weight_cost(weight) ==
    IF weight <= 10 THEN 0
    ELSE IF weight <= 50 THEN 2990
    ELSE IF weight <= 100 THEN 5990
    ELSE weight * 99

(* "Distance modifier": the dict lookup with its default *)
distance_multiplier(distance) ==
    CASE distance = "local" -> 10
      [] distance = "standard" -> 12
      [] distance = "express" -> 20
      [] distance = "international" -> 30
      [] OTHER -> 10

(* an absent weight returns base_cost itself, 5.99, here in the unit of   *)
(* the result                                                             *)
calculate_shipping(weight, distance) ==
    IF ~weight.some THEN base_cost * 10
    ELSE (base_cost + weight_cost(weight.val)) * distance_multiplier(distance)

Weights == {None} \cup {Some(w) : w \in 0..MaxWeight}
Distances == {"local", "standard", "express", "international", "drone"}

(* a call; distance left out takes the default "standard" *)
calculate_shipping_call(weight, distance) ==
    /\ resp' = Respond("calculate_shipping",
                   [weight |-> weight, distance |-> distance],
                   calculate_shipping(weight,
                       IF distance.some THEN distance.val ELSE "standard"))
    /\ UNCHANGED <<now, tokVars, authVars, addrVars, prodVars, orderVars, viewVars, sessVars, taskVars>>

-----------------------------------------------------------------------------
(* Order numbers: app/utils/helpers.py generate_order_number and          *)
(* scripts/seed_data.py create_orders.  An order number is the sequence   *)
(* of its characters.                                                     *)

MaxOrders == 3

DigitChars == <<"0", "1", "2", "3", "4", "5", "6", "7", "8", "9">>

RECURSIVE str(_)
(* the decimal digits of a non-negative int, as an f-string prints it *)
str(n) ==
    IF n < 10 THEN <<DigitChars[n + 1]>>
    ELSE str(n \div 10) \o <<DigitChars[(n % 10) + 1]>>

(* %Y, %m, %d: a number printed zero-padded to a width *)
zero_padded(n, width) ==
    LET d == str(n)
    IN  IF Len(d) >= width THEN d ELSE [i \in 1..(width - Len(d)) |-> "0"] \o d

strftime_Ymd(date) ==
    zero_padded(date.year, 4) \o zero_padded(date.month, 2) \o zero_padded(date.day, 2)

(* random_part is the six secrets.choice(string.digits) draws *)
generate_order_number(today, random_part) ==
    <<"M", "P">> \o strftime_Ymd(today) \o random_part

(* f"MP{order_date.strftime('%Y%m%d')}{random.randint(1000, 9999)}" *)
seed_order_number(order_date, randint) ==
    <<"M", "P">> \o strftime_Ymd(order_date) \o str(randint)

Dates == {[year |-> 2025, month |-> 11, day |-> 3], [year |-> 2026, month |-> 1, day |-> 28]}
RandomParts == {<<a, "0", b, "9", c, "5">> : a \in {"0", "9"}, b \in {"1", "9"}, c \in {"0", "8"}}
Randints == {1000, 1001, 9999}

Order(id, order_number, user_id, created_at) ==
    [id |-> id, order_number |-> order_number, user_id |-> user_id,
     created_at |-> created_at]

generate_order_number_call(today, random_part) ==
    /\ resp' = Respond("generate_order_number",
                   [today |-> today, random_part |-> random_part],
                   generate_order_number(today, random_part))
    /\ UNCHANGED <<now, tokVars, authVars, addrVars, prodVars, orderVars, viewVars, sessVars, taskVars>>

(* one turn of the inner loop of create_orders: session.add(order) and    *)
(* session.flush(); the unique index on order_number refuses a second     *)
(* order of the same number, and main() then rolls the session back and   *)
(* re-raises                                                              *)
create_orders_step(user_id, order_date, randint) ==
    /\ seeding = "running"
    /\ Len(orders) < MaxOrders
    /\ LET order_number == seed_order_number(order_date, randint)
       IN  IF \E i \in DOMAIN orders : orders[i].order_number = order_number
           THEN /\ orders' = <<>>
                /\ seeding' = "failed"
           ELSE /\ orders' = Append(orders,
                        Order(Len(orders) + 1, order_number, user_id, order_date))
                /\ seeding' = "running"
    /\ UNCHANGED <<now, resp, tokVars, authVars, addrVars, prodVars, viewVars, sessVars, taskVars>>

(* await session.commit() after the loops *)
create_orders_commit ==
    /\ seeding = "running"
    /\ seeding' = "committed"
    /\ UNCHANGED <<now, resp, orders, tokVars, authVars, addrVars, prodVars, viewVars, sessVars, taskVars>>

-----------------------------------------------------------------------------
(* app/services/search_service.py search_products and the route           *)
(* GET /products/search.  The engine is outside the program: what         *)
(* es.search does is an input, either a fault it raises or the response   *)
(* it returns.                                                            *)

EngineFaults == {"ConnectionError", "ConnectionTimeout", "NotFoundError"}

(* a response of the engine: hits are ids of indexed documents; a         *)
(* response may lack the keys the service reads                           *)
EngineResponse(total, hits, aggregations, complete) ==
    [raised |-> "no", total |-> total, hits |-> hits,
     aggregations |-> aggregations, complete |-> complete]
EngineFault(name) == [raised |-> name]

(* "Return empty results on error" *)
empty_search_response(page, page_size) ==
    [products |-> <<>>, total_count |-> 0, page |-> page,
     page_size |-> page_size, total_pages |-> 0, facets |-> <<>>]

(* "Process facets" *)
facets_of(aggregations) ==
    IF ~aggregations.some THEN <<>>
    ELSE [k \in DOMAIN aggregations.val \cap {"categories", "price_ranges"} |->
             [i \in DOMAIN aggregations.val[k] |->
                 [name |-> aggregations.val[k][i].key,
                  count |-> aggregations.val[k][i].doc_count]]]

(* what the engine answers to the query of search_products when it is    *)
(* reached and every indexed document matches the text: the filter        *)
(* {"term": {"is_active": True}} keeps the documents marked active        *)
RECURSIVE ids_ascending(_)
ids_ascending(ids) ==
    IF ids = {} THEN <<>>
    ELSE LET least == CHOOSE i \in ids : \A j \in ids : i <= j
         IN  <<least>> \o ids_ascending(ids \ {least})
engine_search(index) ==
    LET hits == ids_ascending({id \in DOMAIN index : index[id].is_active})
    IN  EngineResponse(Len(hits), hits, None, TRUE)

(* search_products with the except clause re-raising *)
search_service_search_products_raising(search_params, es_search) ==
    IF es_search.raised # "no"
    THEN unhandled_error(es_search.raised)
    ELSE IF ~es_search.complete
    THEN unhandled_error("KeyError")
    ELSE [status |-> 200,
          body |-> [products |-> [i \in DOMAIN es_search.hits |->
                                     [id |-> search[es_search.hits[i]].id]],
                    total_count |-> es_search.total,
                    page |-> search_params.page,
                    page_size |-> search_params.page_size,
                    total_pages |-> (es_search.total + search_params.page_size - 1)
                                        \div search_params.page_size,
                    facets |-> facets_of(es_search.aggregations)]]

(* SearchService.search_products: es_search is the outcome of the         *)
(* es.search call; a fault of the call, and a KeyError while reading an   *)
(* incomplete response, end in the except clause                          *)
search_service_search_products(search_params, es_search) ==
    IF es_search.raised # "no"
    THEN [status |-> 200,
          body |-> empty_search_response(search_params.page, search_params.page_size)]
    ELSE IF ~es_search.complete
    THEN [status |-> 200,
          body |-> empty_search_response(search_params.page, search_params.page_size)]
    ELSE [status |-> 200,
          body |-> [products |-> [i \in DOMAIN es_search.hits |->
                                     [id |-> search[es_search.hits[i]].id]],
                    total_count |-> es_search.total,
                    page |-> search_params.page,
                    page_size |-> search_params.page_size,
                    total_pages |-> (es_search.total + search_params.page_size - 1)
                                        \div search_params.page_size,
                    facets |-> facets_of(es_search.aggregations)]]

(* Query(..., min_length=2), Query(1, ge=1), Query(20, ge=1, le=100) *)
search_query_valid(params) ==
    /\ Len(params.q) >= 2
    /\ params.page >= 1
    /\ params.page_size >= 1 /\ params.page_size <= PAGE_SIZE_LE

(* GET /products/search *)
search_products(params, es_search) ==
    /\ IF ~search_query_valid(params)
       THEN resp' = Respond("search_products",
                        [params |-> params, es_search |-> es_search],
                        request_validation_error)
       ELSE resp' = Respond("search_products",
                        [params |-> params, es_search |-> es_search],
                        search_service_search_products(params, es_search))
    /\ UNCHANGED <<now, tokVars, authVars, addrVars, prodVars, orderVars, viewVars, sessVars, taskVars>>

-----------------------------------------------------------------------------
(* Initial states *)

(* an account that exists before the first request (tests/conftest.py,    *)
(* scripts/seed_data.py); is_active is a column an operator may have      *)
(* cleared                                                                *)
SeedUser(active) ==
    [User(1, "ann@example.com", get_password_hash("passwd08", "salt0"))
        EXCEPT !.is_active = active, !.is_verified = TRUE]

InitClock == now = 0 /\ resp = Idle
InitToken == tok = NoToken /\ tokMint = NoMint /\ tokOut = NoVerify
InitUsers == users \in {<<SeedUser(a)>> : a \in BOOLEAN} /\ mail = <<>>
InitAddresses == addresses = <<>> /\ areq = [r \in AddrSlots |-> IdleSlot]
InitOrders ==
    /\ orders = <<>> /\ seeding = "running"
    /\ vreq = [v \in ViewSlots |-> IdleSlot]
    /\ sessions = [r \in SessionSlots |-> NoSession]
    /\ tasks = <<>>
InitProducts ==
    /\ products = <<>> /\ reviews = <<>> /\ search = <<>>
    /\ rreq = [r \in ReviewSlots |-> IdleSlot]

-----------------------------------------------------------------------------
(* The authentication routes, one request at a time *)

RegisterRequests ==
    [email : Emails, password : Passwords]
LoginRequests ==
    [email : Emails, password : Passwords]

Init == InitClock /\ InitToken /\ InitOrders /\ InitUsers /\ InitAddresses /\ InitProducts

Next ==
    \/ \E d \in RegisterRequests, s \in Salts : register(d, s)
    \/ \E c \in LoginRequests : login(c)
    \/ Tick

Spec == Init /\ [][Next]_vars

(* The token service on its own *)

NextToken ==
    \/ \E ty \in TokenTypes, e \in Emails : MintToken(ty, e)
    \/ \E how \in Tamperings : TamperToken(how)
    \/ \E ty \in TokenTypes : VerifyToken(ty)
    \/ Advance

InitTokenOnly ==
    /\ InitClock /\ InitToken /\ InitOrders /\ InitAddresses /\ InitProducts
    /\ users = <<SeedUser(TRUE)>> /\ mail = <<>>

SpecToken == InitTokenOnly /\ [][NextToken]_vars

(* The address routes of two signed-in users *)

SecondUser == User(2, "bob@example.com", get_password_hash("password9", "salt0"))

InitTwoUsers ==
    /\ InitClock /\ InitToken /\ InitOrders /\ InitAddresses /\ InitProducts
    /\ users = <<SeedUser(TRUE), SecondUser>> /\ mail = <<>>

(* one request at a time *)
NextAddress ==
    \/ \E r \in AddrSlots, u \in ActiveUsers, d \in AddressCreates :
           create_address_begin(r, u, d, TRUE)
    \/ \E r \in AddrSlots, u \in ActiveUsers, id \in AddrIds, d \in AddressUpdates :
           address_begin(r, "update_address", u, id, d, TRUE)
    \/ \E r \in AddrSlots, u \in ActiveUsers, id \in AddrIds :
           address_begin(r, "delete_address", u, id, None, TRUE)
    \/ \E r \in AddrSlots : address_load(r)
    \/ \E r \in AddrSlots : address_defaults(r)
    \/ \E r \in AddrSlots : address_commit(r)

SpecAddress == InitTwoUsers /\ [][NextAddress]_vars

(* two customers read, create, change and delete addresses, each naming  *)
(* any address id                                                         *)
NextAddressScope ==
    \/ NextAddress
    \/ \E r \in AddrSlots, u \in ActiveUsers, id \in AddrIds :
           address_begin(r, "get_address", u, id, None, TRUE)

SpecAddressScope == InitTwoUsers /\ [][NextAddressScope]_vars

(* requests of one user interleaved at their awaits *)
ConcCallers == {1}
ConcCreates == [street : {"1 Main St"}, is_default : BOOLEAN]
ConcUpdates == [street : {None}, is_default : {None, Some(TRUE), Some(FALSE)}]

NextAddressConc ==
    \/ \E r \in AddrSlots, u \in ConcCallers, d \in ConcCreates :
           create_address_begin(r, u, d, FALSE)
    \/ \E r \in AddrSlots, u \in ConcCallers, id \in AddrIds, d \in ConcUpdates :
           address_begin(r, "update_address", u, id, d, FALSE)
    \/ \E r \in AddrSlots, u \in ConcCallers, id \in AddrIds :
           address_begin(r, "delete_address", u, id, None, FALSE)
    \/ \E r \in AddrSlots : address_load(r)
    \/ \E r \in AddrSlots : address_defaults(r)
    \/ \E r \in AddrSlots : address_commit(r)

SpecAddressConc == InitTwoUsers /\ [][NextAddressConc]_vars

(* The catalog routes: a stored product, a customer and an admin *)

AdminUser == [SecondUser EXCEPT !.is_admin = TRUE]
ThirdUser(active) ==
    [User(3, "cy@example.com", get_password_hash("password9", "salt0"))
        EXCEPT !.is_active = active]

Mug == Product(1, <<"M", "u", "g">>, None, "kitchen", 1999, 3, FALSE, 0)
Jug == Product(2, <<"J", "u", "g">>, Some(<<"M", "U", "G">>), "kitchen", 2000, 3, TRUE, 0)
Lamp == Product(3, <<"L", "a", "m", "p">>, None, "home", 5000, 3, FALSE, 0)
Rug == Product(4, <<"R", "u", "g">>, Some(<<>>), "home", 5001, 3, TRUE, 0)

Table(rows) == [id \in {row.id : row \in rows} |-> CHOOSE row \in rows : row.id = id]

InitCatalog ==
    /\ InitClock /\ InitToken /\ InitOrders /\ InitAddresses
    /\ users = <<SeedUser(TRUE), AdminUser>> /\ mail = <<>>
    /\ products = Table({Mug})
    /\ search = [id \in {1} |-> SearchDocument(products[id])]
    /\ reviews = <<>> /\ rreq = [r \in ReviewSlots |-> IdleSlot]

ProductUpdates ==
    [is_active : {None, Some(TRUE), Some(FALSE)}, stock_quantity : {None, Some(0)}]

CatalogIds == {1, 2}

(* the callers hold the access tokens login gave them at time 0 *)
SignedIn == {Some(access_token_of(u, 0)) : u \in 1..Len(users)}

NextCatalog ==
    \/ \E a \in SignedIn, na \in NotAuthenticated, id \in CatalogIds :
           get_product(a, na, id)
    \/ \E a \in SignedIn, na \in NotAuthenticated, id \in CatalogIds,
          d \in ProductUpdates, reached \in BOOLEAN :
           update_product(a, na, id, d, reached)
    \/ \E a \in SignedIn, na \in NotAuthenticated, id \in CatalogIds,
          reached \in BOOLEAN : delete_product(a, na, id, reached)
    \/ Tick

SpecCatalog == InitCatalog /\ [][NextCatalog]_vars

(* The admin-only product routes, called by a customer, an admin, a       *)
(* deactivated admin, and callers without a usable credential             *)

InitAdmin ==
    /\ InitClock /\ InitToken /\ InitOrders /\ InitAddresses
    /\ users = <<SeedUser(TRUE), AdminUser, [ThirdUser(FALSE) EXCEPT !.is_admin = TRUE]>>
    /\ mail = <<>>
    /\ products = Table({Mug})
    /\ search = [id \in {1} |-> SearchDocument(products[id])]
    /\ reviews = <<>> /\ rreq = [r \in ReviewSlots |-> IdleSlot]

(* no Authorization header; the access tokens of the stored users; the    *)
(* admin's refresh token; and an access token of the admin's that has     *)
(* expired                                                                *)
Authorizations ==
    {None} \cup {Some(access_token_of(u, 0)) : u \in 1..Len(users)}
    \cup {Some(create_refresh_token([sub |-> AdminUser.email, user_id |-> 2], 0)),
          Some(access_token_of(2, 0 - ACCESS_TOKEN_EXPIRE_MINUTES - 1))}

ProductCreates ==
    {[name |-> row.name, sku |-> row.sku, slug |-> row.slug,
      category_id |-> row.category_id, price |-> row.price,
      stock_quantity |-> row.stock_quantity] : row \in {Mug, Jug}}

AdminUpdates ==
    {[is_active |-> Some(FALSE), stock_quantity |-> None],
     [is_active |-> Some(TRUE), stock_quantity |-> Some(0)]}

NextAdmin ==
    \/ \E a \in Authorizations, na \in NotAuthenticated, d \in ProductCreates,
          reached \in BOOLEAN : create_product(a, na, d, reached)
    \/ \E a \in Authorizations, na \in NotAuthenticated, id \in CatalogIds,
          d \in AdminUpdates, reached \in BOOLEAN :
           update_product(a, na, id, d, reached)
    \/ \E a \in Authorizations, na \in NotAuthenticated, id \in CatalogIds,
          reached \in BOOLEAN : delete_product(a, na, id, reached)
    \/ \E a \in Authorizations, na \in NotAuthenticated, id \in CatalogIds,
          files \in {2} : upload_product_images(a, na, id, files)

SpecAdmin == InitAdmin /\ [][NextAdmin]_vars

(* The catalog as an admin maintains it: products are created, changed    *)
(* (SKU and slug included) and deleted, each call of the search engine    *)
(* reaching it or not, and the catalog is read through the listing, the   *)
(* product page and the search                                            *)

Admin == Some(access_token_of(2, 0))

SkuCreates ==
    {[name |-> Jug.name, sku |-> sku, slug |-> slug,
      category_id |-> Jug.category_id, price |-> Jug.price,
      stock_quantity |-> Jug.stock_quantity] :
        sku \in {Mug.sku, Jug.sku}, slug \in {Mug.slug, Jug.slug}}

NoUpdate == [sku |-> None, slug |-> None, is_active |-> None]
SkuUpdates ==
    {[NoUpdate EXCEPT !.sku = Some(name)] : name \in {Mug.sku, Jug.sku}}
    \cup {[NoUpdate EXCEPT !.slug = Some(name)] : name \in {Mug.slug, Jug.slug}}
    \cup {[NoUpdate EXCEPT !.is_active = Some(active)] : active \in BOOLEAN}

ShelfQueries ==
    {[category_id |-> None, q |-> None, min_price |-> None, max_price |-> None,
      in_stock_only |-> FALSE, featured_only |-> FALSE, sort_by |-> "name",
      page |-> 1, page_size |-> 20]}

NextShelf ==
    \/ \E d \in SkuCreates, reached \in BOOLEAN :
           create_product(Admin, 401, d, reached)
    \/ \E id \in CatalogIds, d \in SkuUpdates, reached \in BOOLEAN :
           update_product(Admin, 401, id, d, reached)
    \/ \E id \in CatalogIds, reached \in BOOLEAN :
           delete_product(Admin, 401, id, reached)
    \/ \E id \in CatalogIds : get_product(None, 401, id)
    \/ \E params \in ShelfQueries : get_products(params)
    \/ search_products([q |-> <<"u", "g">>, page |-> 1, page_size |-> 20],
                       engine_search(search))

SpecShelf == InitCatalog /\ [][NextShelf]_vars

(* The search route over an index of two documents, the engine answering  *)
(* or failing                                                             *)

InitSearch ==
    /\ InitClock /\ InitToken /\ InitOrders /\ InitAddresses
    /\ users = <<SeedUser(TRUE)>> /\ mail = <<>>
    /\ products = Table({Mug, Jug})
    /\ search = [id \in {1, 2} |-> SearchDocument(products[id])]
    /\ reviews = <<>> /\ rreq = [r \in ReviewSlots |-> IdleSlot]

SearchQueries ==
    [q : {<<"u">>, <<"u", "g">>}, page : {1, 2}, page_size : {1, 20, 101}]

Aggregations ==
    {None, Some([categories |-> <<[key |-> "kitchen", doc_count |-> 2]>>])}

EngineOutcomes ==
    {EngineFault(f) : f \in EngineFaults}
    \cup {EngineResponse(Len(hits), hits, a, c) :
            hits \in {<<>>, <<1>>, <<2, 1>>}, a \in Aggregations, c \in BOOLEAN}

NextSearch ==
    \E params \in SearchQueries, es_search \in EngineOutcomes :
        search_products(params, es_search)

SpecSearch == InitSearch /\ [][NextSearch]_vars

(* Forgot-password requests for the address of an active account, of a    *)
(* deactivated one, and of nobody                                         *)

InitForgot ==
    /\ InitClock /\ InitToken /\ InitOrders /\ InitAddresses /\ InitProducts
    /\ users \in {<<SeedUser(a), SecondUser>> : a \in BOOLEAN} /\ mail = <<>>

NextForgot ==
    \/ \E email \in Emails : forgot_password([email |-> email])
    \/ Tick

SpecForgot == InitForgot /\ [][NextForgot]_vars

(* Product pages fetched by signed-in and by anonymous callers *)

NextViewer ==
    \/ \E a \in Authorizations, na \in NotAuthenticated, id \in CatalogIds :
           get_product(a, na, id)
    \/ Tick

SpecViewer == InitCatalog /\ [][NextViewer]_vars

(* Product pages fetched by requests that overlap *)

NextViewConc ==
    \/ \E v \in ViewSlots, a \in SignedIn, na \in NotAuthenticated, id \in CatalogIds :
           get_product_begin(v, a, na, id, FALSE)
    \/ \E v \in ViewSlots : get_product_select(v)
    \/ \E v \in ViewSlots : get_product_commit(v)
    \/ Tick

SpecViewConc == InitCatalog /\ [][NextViewConc]_vars

(* The account routes called for a customer and an admin whose accounts   *)
(* are deactivated while the tokens issued to them are still in date      *)

InitInactive ==
    /\ InitClock /\ InitToken /\ InitOrders /\ InitAddresses
    /\ users = <<SeedUser(TRUE), AdminUser>> /\ mail = <<>>
    /\ products = Table({Mug})
    /\ search = [id \in {1} |-> SearchDocument(products[id])]
    /\ reviews = <<>> /\ rreq = [r \in ReviewSlots |-> IdleSlot]

(* the tokens issued at time 0 to the stored users *)
TokenClaims(user_id) == [sub |-> users[user_id].email, user_id |-> user_id]
IssuedRefreshTokens ==
    {create_refresh_token(TokenClaims(u), 0) : u \in 1..Len(users)}
IssuedResetTokens ==
    {create_password_reset_token(users[u].email, 0) : u \in 1..Len(users)}
IssuedVerificationTokens ==
    {create_email_verification_token(users[u].email, 0) : u \in 1..Len(users)}

NextInactive ==
    \/ \E u \in 1..Len(users) : account_deactivated(u)
    \/ \E c \in [email : {"ann@example.com", "bob@example.com"},
                 password : {"passwd08", "password9"}] : login(c)
    \/ \E t \in IssuedRefreshTokens \cup {access_token_of(1, 0)} :
           refresh_token([refresh_token |-> t])
    \/ \E t \in IssuedResetTokens, p \in {"short07", "password9"}, s \in Salts :
           reset_password([token |-> t, new_password |-> p], s)
    \/ \E a \in SignedIn, na \in NotAuthenticated : get_my_profile(a, na)
    \/ \E a \in SignedIn, na \in NotAuthenticated, s \in Salts :
           change_password(a, na, [current_password |-> "password9",
                                   new_password |-> "passwd08"], s)
    \/ \E a \in SignedIn, na \in NotAuthenticated, reached \in BOOLEAN :
           delete_product(a, na, 1, reached)

SpecInactive == InitInactive /\ [][NextInactive]_vars

(* Password replacement: two customers reset and change their passwords   *)
(* and sign in with the old and the new ones                              *)

ResetTokens ==
    IssuedResetTokens \cup {create_email_verification_token("ann@example.com", 0)}

PasswordChanges == [current_password : Passwords, new_password : Passwords]

NextPassword ==
    \/ \E c \in [email : {"ann@example.com", "bob@example.com"},
                 password : Passwords] : login(c)
    \/ \E t \in ResetTokens, p \in Passwords, s \in Salts :
           reset_password([token |-> t, new_password |-> p], s)
    \/ \E a \in SignedIn \cup {None}, na \in NotAuthenticated,
          d \in PasswordChanges, s \in Salts :
           change_password(a, na, d, s)

SpecPassword == InitTwoUsers /\ [][NextPassword]_vars

(* Two requests, each with its session, interleaved at their awaits *)

NextSession ==
    \/ \E r \in SessionSlots : get_async_session_yield(r)
    \/ \E r \in SessionSlots : handler_execute(r)
    \/ \E r \in SessionSlots : handler_commit(r)
    \/ \E r \in SessionSlots : handler_return(r)
    \/ \E r \in SessionSlots, f \in Faults : handler_raise(r, f)
    \/ \E r \in SessionSlots : get_async_session_except(r)
    \/ \E r \in SessionSlots : get_async_session_finally(r)

SpecSession == InitTokenOnly /\ [][NextSession]_vars

(* Registrations and the verification emails they leave to send *)

NextEmail ==
    \/ \E d \in [email : {"bob@example.com", "cy@example.com"},
                 password : {"short07", "password9"}], s \in Salts : register(d, s)
    \/ \E f \in SendFailures : background_task_run(f)

SpecEmail == InitTokenOnly /\ [][NextEmail]_vars

(* Every route open to a customer, one request at a time: accounts are    *)
(* registered, signed in and out, verified, their passwords reset and     *)
(* changed, their profiles edited, and they store addresses and reviews   *)

InitFlags ==
    /\ InitClock /\ InitToken /\ InitOrders /\ InitAddresses
    /\ users = <<SeedUser(TRUE)>> /\ mail = <<>>
    /\ products = Table({Mug})
    /\ search = [id \in {1} |-> SearchDocument(products[id])]
    /\ reviews = <<>> /\ rreq = [r \in ReviewSlots |-> IdleSlot]

(* a body that names first_name and, with it, columns the profile schema  *)
(* does not have                                                          *)
ProfileBodies ==
    {[first_name |-> "Ann", email |-> "root@example.com", is_admin |-> TRUE,
      is_active |-> FALSE, is_verified |-> TRUE]}

MailedTokens == {mail[i].token : i \in 1..Len(mail)}

NoneInFlight == Quiet(AddrSlots, areq) /\ Quiet(ReviewSlots, rreq)

Ann == Some(access_token_of(1, 0))

NextFlags ==
    \/ \E e \in {"ann@example.com", "cy@example.com"}, s \in Salts :
           NoneInFlight /\ register([email |-> e, password |-> "password9"], s)
    \/ NoneInFlight /\ login([email |-> "ann@example.com", password |-> "passwd08"])
    \/ NoneInFlight
           /\ refresh_token([refresh_token |-> create_refresh_token(TokenClaims(1), 0)])
    \/ NoneInFlight /\ logout(Ann, 401)
    \/ NoneInFlight /\ forgot_password([email |-> "ann@example.com"])
    \/ \E t \in MailedTokens, s \in Salts :
           NoneInFlight /\ reset_password([token |-> t, new_password |-> "password9"], s)
    \/ \E t \in MailedTokens : NoneInFlight /\ verify_email(t)
    \/ \E body \in ProfileBodies : NoneInFlight /\ update_my_profile(Ann, 401, body)
    \/ \E s \in Salts :
           NoneInFlight /\ change_password(Ann, 401, [current_password |-> "passwd08",
                                                     new_password |-> "password9"], s)
    \/ NoneInFlight /\ create_address_begin("a", 1, [street |-> "1 Main St",
                                                     is_default |-> TRUE], TRUE)
    \/ NoneInFlight /\ create_product_review_begin("a", 1, 1, [rating |-> 5], TRUE)
    \/ address_defaults("a")
    \/ address_commit("a")
    \/ review_product("a")
    \/ review_existing("a")
    \/ review_insert("a")
    \/ review_rating("a")
    \/ review_commit("a")

SpecFlags == InitFlags /\ [][NextFlags]_vars

(* The product listing over a catalog of four products, some of them      *)
(* deleted, out of stock or rated                                         *)

ListingCatalogs ==
    {Table({[Mug EXCEPT !.stock_quantity = 0],
            [Jug EXCEPT !.is_active = active, !.rating_average = 450,
                        !.rating_count = 2],
            [Lamp EXCEPT !.created_at = 1, !.updated_at = 1],
            [Rug EXCEPT !.rating_average = 500, !.rating_count = 1]}) :
        active \in BOOLEAN}

InitListing ==
    /\ InitClock /\ InitToken /\ InitOrders /\ InitAddresses
    /\ users = <<SeedUser(TRUE)>> /\ mail = <<>>
    /\ products \in ListingCatalogs
    /\ search = <<>>
    /\ reviews = <<>> /\ rreq = [r \in ReviewSlots |-> IdleSlot]

Pagings ==
    {<<"name", 1, 2>>, <<"price_asc", 2, 2>>, <<"price_desc", 1, 101>>,
     <<"rating", 1, 3>>, <<"created_at", 2, 1>>}
Selections == {<<None, FALSE>>, <<Some("kitchen"), FALSE>>, <<None, TRUE>>}
ListingQueries ==
    {[category_id |-> c[1], q |-> q, min_price |-> lo, max_price |-> hi,
      in_stock_only |-> s, featured_only |-> c[2], sort_by |-> pg[1],
      page |-> pg[2], page_size |-> pg[3]] :
        c \in Selections,
        q \in {None, Some(<<"m", "u", "g">>), Some(<<"_", "u", "g">>)},
        lo \in {None, Some(2000)}, hi \in {None, Some(5000)},
        s \in BOOLEAN, pg \in Pagings}

NextListing == \E params \in ListingQueries : get_products(params)

SpecListing == InitListing /\ [][NextListing]_vars

(* The review route: three customers, an active and a deleted product,    *)
(* and one review that exists beforehand, approved or held back           *)

InitReviews ==
    /\ InitClock /\ InitToken /\ InitOrders /\ InitAddresses
    /\ mail = <<>> /\ search = <<>>
    /\ rreq = [r \in ReviewSlots |-> IdleSlot]
    /\ \E active \in BOOLEAN, approved \in BOOLEAN :
        /\ users = <<SeedUser(TRUE), SecondUser, ThirdUser(active)>>
        /\ reviews = <<[ProductReview(1, 1, 3, 4) EXCEPT !.is_approved = approved]>>
        /\ products = Table({
               [Mug EXCEPT !.rating_average = IF approved THEN 400 ELSE 0,
                           !.rating_count = IF approved THEN 1 ELSE 0],
               [Jug EXCEPT !.is_active = FALSE]})

ReviewCreates == [rating : Ratings]

(* one request at a time *)
NextReview ==
    \/ \E r \in ReviewSlots, u \in 1..Len(users), id \in ProductIds,
          d \in ReviewCreates : create_product_review_begin(r, u, id, d, TRUE)
    \/ \E r \in ReviewSlots : review_product(r)
    \/ \E r \in ReviewSlots : review_existing(r)
    \/ \E r \in ReviewSlots : review_insert(r)
    \/ \E r \in ReviewSlots : review_rating(r)
    \/ \E r \in ReviewSlots : review_commit(r)

SpecReview == InitReviews /\ [][NextReview]_vars

(* requests of one user for one product interleaved at their awaits *)
NextReviewConc ==
    \/ \E r \in ReviewSlots, u \in ConcCallers, d \in ReviewCreates :
           create_product_review_begin(r, u, 1, d, FALSE)
    \/ \E r \in ReviewSlots : review_product(r)
    \/ \E r \in ReviewSlots : review_existing(r)
    \/ \E r \in ReviewSlots : review_insert(r)
    \/ \E r \in ReviewSlots : review_rating(r)
    \/ \E r \in ReviewSlots : review_commit(r)

SpecReviewConc == InitReviews /\ [][NextReviewConc]_vars

(* The shipping calculation on its own *)

NextShipping ==
    \E weight \in Weights, distance \in {None} \cup {Some(d) : d \in Distances} :
        calculate_shipping_call(weight, distance)

SpecShipping == InitTokenOnly /\ [][NextShipping]_vars

(* Order numbers of the helper and of one seeding run *)

NextOrders ==
    \/ \E today \in Dates, random_part \in RandomParts :
           generate_order_number_call(today, random_part)
    \/ \E u \in ActiveUsers, order_date \in Dates, randint \in Randints :
           create_orders_step(u, order_date, randint)
    \/ create_orders_commit

SpecOrders == InitTokenOnly /\ [][NextOrders]_vars

-----------------------------------------------------------------------------
(* Properties of the authentication routes *)

EmailStored(email) == \E i \in 1..Len(users) : users[i].email = email

(* C1: a registration whose email is not yet stored and whose password    *)
(* has at least 8 characters returns 201 and stores exactly one new row,  *)
(* active, not verified, not admin, holding a bcrypt hash of the password *)
(* (never the plaintext); the rows already stored are left as they were.  *)
RegisterCreatesUser ==
    [][(/\ resp'.op = "register"
        /\ ~EmailStored(resp'.req.email)
        /\ Len(resp'.req.password) >= 8)
       => /\ resp'.out.status = 201
          /\ Len(users') = Len(users) + 1
          /\ SubSeq(users', 1, Len(users)) = users
          /\ LET u == users'[Len(users')]
             IN  /\ u.email = resp'.req.email
                 /\ u.is_active /\ ~u.is_verified /\ ~u.is_admin
                 /\ u.password_hash.scheme = "bcrypt"
                 /\ u.password_hash.digest
                        = Digest(u.password_hash.salt, resp'.req.password)
                 /\ resp'.out.body = UserResponse(u)]_vars

(* C1 witness: a registration with a password of exactly 8 characters     *)
(* was accepted and its row is stored                                     *)
RegisterCreatesUserWitness ==
    /\ resp.op = "register"
    /\ resp.out.status = 201
    /\ Len(resp.req.password) = 8
    /\ users[Len(users)].email = resp.req.email
    /\ Len(users) >= 2

(* C2: a registration whose email already belongs to a stored user is     *)
(* answered 400 "Email address is already registered", changes no user    *)
(* row and schedules no email; and no two stored users share an email.    *)
DuplicateEmailRejected ==
    /\ [](\A i, j \in 1..Len(users) : users[i].email = users[j].email => i = j)
    /\ [][(resp'.op = "register" /\ EmailStored(resp'.req.email))
          => /\ resp'.out = validation_exception_handler(
                                "Email address is already registered")
             /\ users' = users
             /\ mail' = mail]_vars

(* C2 witness: an address registered by an earlier request was offered    *)
(* again, with an acceptable password, and refused                        *)
DuplicateEmailRejectedWitness ==
    /\ resp.op = "register"
    /\ resp.out.status = 400
    /\ Len(resp.req.password) >= 8
    /\ \E i \in 2..Len(users) : users[i].email = resp.req.email

(* C3: login answers 200 with an access and a refresh token, and sets     *)
(* last_login to the current time, exactly when the email is stored, the  *)
(* password verifies against the stored hash and the account is active;   *)
(* otherwise it answers 401 without tokens and changes no stored field.   *)
LoginOutcome ==
    [][resp'.op = "login" =>
        LET c == resp'.req
            Good(i) == /\ users[i].email = c.email
                       /\ users[i].password_hash.digest
                              = Digest(users[i].password_hash.salt, c.password)
                       /\ users[i].is_active
        IN  IF \E i \in 1..Len(users) : Good(i)
            THEN /\ resp'.out.status = 200
                 /\ jwt_decode(resp'.out.body.access_token, SECRET_KEY, now).raised = "no"
                 /\ resp'.out.body.access_token.claims.type = "access"
                 /\ resp'.out.body.access_token.claims.sub = c.email
                 /\ jwt_decode(resp'.out.body.refresh_token, SECRET_KEY, now).raised = "no"
                 /\ resp'.out.body.refresh_token.claims.type = "refresh"
                 /\ resp'.out.body.refresh_token.claims.sub = c.email
                 /\ \E i \in 1..Len(users) :
                        /\ Good(i)
                        /\ users' = [users EXCEPT ![i].last_login = Some(now)]
            ELSE /\ resp'.out.status = 401
                 /\ "body" \notin DOMAIN resp'.out
                 /\ users' = users]_vars

(* C3 witness: a login succeeded after time had passed, and the row holds *)
(* the time of that login                                                 *)
LoginOutcomeWitness ==
    /\ resp.op = "login"
    /\ resp.out.status = 200
    /\ now > 0
    /\ \E i \in 1..Len(users) :
           users[i].email = resp.req.email /\ users[i].last_login = Some(now)

(* C4: verification is strict.  A token verifies to a payload only when   *)
(* it is an undamaged token that was minted as the very type it is        *)
(* verified as and has not expired, and then every time; a token of       *)
(* another type, an expired, malformed, forged or empty token verifies to *)
(* no payload under every type; and verification never raises.            *)
TokenVerificationStrict ==
    tokOut.as \in TokenTypes =>
        /\ tokOut.out.raised = "no"
        /\ tokOut.out.payload.some
             <=> /\ tokMint.intact
                 /\ tokMint.type = tokOut.as
                 /\ tokOut.at <= tokMint.at + Lifetime(tokMint.type)
        /\ tokOut.out.payload.some =>
             /\ tokOut.out.payload.val.sub = tokMint.sub
             /\ tokOut.out.payload.val.type = tokOut.as

(* C4 witness: an undamaged, unexpired access token was verified as a     *)
(* refresh token and gave no payload                                      *)
TokenVerificationStrictWitness ==
    /\ tokOut.as = "refresh"
    /\ tokMint.type = "access"
    /\ tokMint.intact
    /\ tokOut.at <= tokMint.at + Lifetime("access")
    /\ ~tokOut.out.payload.some

-----------------------------------------------------------------------------
(* Properties of the address routes *)

DefaultsOf(table, user_id) ==
    {id \in DOMAIN table : table[id].user_id = user_id /\ table[id].is_default}

AtMostOneDefault ==
    \A u \in 1..Len(users) : Cardinality(DefaultsOf(addresses, u)) <= 1

SetsDefault(response) ==
    \/ /\ response.op = "create_address"
       /\ response.out.status = 201
       /\ response.req.data.is_default
    \/ /\ response.op = "update_address"
       /\ response.out.status = 200
       /\ response.req.data.update.is_default = Some(TRUE)

(* C5: with the address requests of a user executed one at a time, the    *)
(* user never has more than one default address; and a create or update   *)
(* that sets is_default leaves exactly one default, the address it        *)
(* created or updated, every earlier default of that user being cleared.  *)
OneDefaultOneAtATime ==
    /\ []AtMostOneDefault
    /\ [][SetsDefault(resp') =>
            /\ DefaultsOf(addresses', resp'.req.user_id) = {resp'.out.body.id}
            /\ \A id \in DefaultsOf(addresses, resp'.req.user_id) \ {resp'.out.body.id} :
                   /\ id \in DOMAIN addresses'
                   /\ ~addresses'[id].is_default
                   /\ addresses'[id].street = addresses[id].street]_vars

(* C5 witness: an address was created as the default while the user had   *)
(* another default, which is now cleared                                  *)
OneDefaultOneAtATimeWitness ==
    /\ resp.op = "create_address"
    /\ resp.out.status = 201
    /\ resp.req.data.is_default
    /\ resp.req.existing_defaults # {}
    /\ \A id \in resp.req.existing_defaults : ~addresses[id].is_default
    /\ addresses[resp.out.body.id].is_default

(* C6: at any time, also while requests of one user that set is_default   *)
(* are interleaved at their database calls, no user has more than one     *)
(* default address.                                                       *)
OneDefaultAtAnyTime ==
    \A u \in 1..Len(users) :
        \A a, b \in DOMAIN addresses :
            (/\ addresses[a].user_id = u /\ addresses[a].is_default
             /\ addresses[b].user_id = u /\ addresses[b].is_default) => a = b

-----------------------------------------------------------------------------
(* Properties of the catalog routes *)

ProductFields == DOMAIN Mug

(* a step that completes an admin DELETE keeps the row, inactive, with    *)
(* the fields in kept as they were                                        *)
SoftDeleted(kept) ==
    (resp'.op = "delete_product" /\ resp'.out.status = 204) =>
        LET id == resp'.req.product_id
        IN  /\ id \in DOMAIN products
            /\ DOMAIN products' = DOMAIN products
            /\ ~products'[id].is_active
            /\ \A f \in kept : products'[id][f] = products[id][f]

(* while a product is inactive a GET of it is answered 404, no step       *)
(* changes its view_count, and only an update that sets is_active to true *)
(* makes it active again                                                  *)
HiddenWhileInactive ==
    \A id \in DOMAIN products :
        ~products[id].is_active =>
            /\ (resp'.op = "get_product" /\ resp'.req.product_id = id) =>
                   resp'.out.status = 404
            /\ products'[id].view_count = products[id].view_count
            /\ products'[id].is_active =>
                   /\ resp'.op = "update_product"
                   /\ resp'.req.product_id = id
                   /\ resp'.req.product_data.is_active = Some(TRUE)

Mentions(column, q) ==
    /\ column.some
    /\ \E start \in 0..(Len(column.val) - Len(q)) :
           \A k \in 1..Len(q) :
               q[k] = "_" \/ lower(q[k]) = lower(column.val[start + k])

-----------------------------------------------------------------------------
(* Properties of the review route *)

(* C8: in every reachable state, also while create-review requests of     *)
(* one user for one product are interleaved at their database calls,      *)
(* there is at most one review per (user, product) pair.                  *)
OneReviewPerUserAndProduct ==
    \A i, j \in DOMAIN reviews :
        (reviews[i].user_id = reviews[j].user_id
            /\ reviews[i].product_id = reviews[j].product_id) => i = j

ApprovedReviews(product_id) ==
    {i \in DOMAIN reviews :
        reviews[i].product_id = product_id /\ reviews[i].is_approved}

ReviewCreated == resp.op = "create_product_review" /\ resp.out.status = 201

(* only a create-review that completes with 201 changes a product *)
RejectedReviewChangesNothing ==
    [][products' # products =>
          resp'.op = "create_product_review" /\ resp'.out.status = 201]_vars

(* C9 as stated: after a create-review that completes successfully, one   *)
(* request at a time, rating_count is the number of approved reviews of   *)
(* the product and rating_average is their mean; a rejected create-review *)
(* leaves both unchanged.                                                 *)
RatingIsExactMean ==
    /\ [](ReviewCreated =>
            LET product == products[resp.req.product_id]
                ids == ApprovedReviews(resp.req.product_id)
            IN  /\ product.rating_count = Cardinality(ids)
                /\ product.rating_average * Cardinality(ids) = 100 * sum_ratings(ids))
    /\ RejectedReviewChangesNothing

(* C9 amended: after a create-review that completes successfully, one     *)
(* request at a time, rating_count is the number of approved reviews of   *)
(* the product and rating_average is their mean rounded to two decimals   *)
(* (the nearest hundredth); a rejected create-review leaves both          *)
(* unchanged.                                                             *)
RatingIsRoundedMean ==
    /\ [](ReviewCreated =>
            LET product == products[resp.req.product_id]
                ids == ApprovedReviews(resp.req.product_id)
                off == product.rating_average * Cardinality(ids) - 100 * sum_ratings(ids)
            IN  /\ product.rating_count = Cardinality(ids)
                /\ 2 * off <= Cardinality(ids)
                /\ 2 * off >= -Cardinality(ids))
    /\ RejectedReviewChangesNothing

(* C9 witness: a review was created on a product that now has three       *)
(* approved reviews whose mean is not a whole number of hundredths        *)
RatingIsRoundedMeanWitness ==
    /\ ReviewCreated
    /\ products[resp.req.product_id].rating_count = 3
    /\ Cardinality(ApprovedReviews(resp.req.product_id)) = 3
    /\ products[resp.req.product_id].rating_average * 3 #
           100 * sum_ratings(ApprovedReviews(resp.req.product_id))

(* C11: a listing asked for a page_size above 100 is answered 200 and     *)
(* reports a page_size capped at 100.                                     *)
PageSizeCapped ==
    (resp.op = "get_products" /\ resp.req.page_size > 100) =>
        /\ resp.out.status = 200
        /\ resp.out.body.page_size = 100

-----------------------------------------------------------------------------
(* Properties of the shipping calculation *)

NamedMultiplier ==
    [local |-> 10, standard |-> 12, express |-> 20, international |-> 30]

ShippingCall == resp.op = "calculate_shipping"
ShippingDistance == IF resp.req.distance.some THEN resp.req.distance.val ELSE "standard"

(* C12: for a present weight and a named distance (standard when none is  *)
(* given) the cost is (5.99 + band) x multiplier, the band being 0 up to  *)
(* weight 1, 2.99 above 1 up to 5, 5.99 above 5 up to 10 and weight x     *)
(* 0.99 above 10, the multiplier 1.0, 1.2, 2.0 or 3.0.                    *)
ShippingByBandAndDistance ==
    (ShippingCall /\ resp.req.weight.some /\ ShippingDistance \in DOMAIN NamedMultiplier) =>
        LET w == resp.req.weight.val
            m == NamedMultiplier[ShippingDistance]
        IN  /\ w <= 10 => resp.out = 5990 * m
            /\ (w > 10 /\ w <= 50) => resp.out = (5990 + 2990) * m
            /\ (w > 50 /\ w <= 100) => resp.out = (5990 + 5990) * m
            /\ w > 100 => resp.out = (5990 + w * 99) * m

(* C12 witness: weight 3 with the default distance costs 10.776, and the  *)
(* same holds at the upper end of that band                               *)
ShippingByBandAndDistanceWitness ==
    /\ ShippingCall
    /\ resp.req.weight \in {Some(30), Some(50)}
    /\ ~resp.req.distance.some
    /\ resp.out = 107760

(* C13: with the weight absent the cost is 5.99 times the multiplier of   *)
(* the requested distance.                                                *)
FlatShippingTimesDistance ==
    (ShippingCall /\ ~resp.req.weight.some /\ ShippingDistance \in DOMAIN NamedMultiplier) =>
        resp.out = 5990 * NamedMultiplier[ShippingDistance]

-----------------------------------------------------------------------------
(* Properties of order numbers *)

OrderNumberFormat(order_number) ==
    /\ Len(order_number) = 16
    /\ order_number[1] = "M" /\ order_number[2] = "P"
    /\ \A i \in 3..16 : \E d \in DOMAIN DigitChars : order_number[i] = DigitChars[d]

(* C14: every order number, of generate_order_number and of the seed      *)
(* script, is MP, an 8-digit date and exactly 6 digits, and no two orders *)
(* of one seeding run share an order number.                              *)
OrderNumbersFormedAndDistinct ==
    /\ resp.op = "generate_order_number" => OrderNumberFormat(resp.out)
    /\ \A i \in DOMAIN orders : OrderNumberFormat(orders[i].order_number)
    /\ \A i, j \in DOMAIN orders :
           i # j => orders[i].order_number # orders[j].order_number

-----------------------------------------------------------------------------
(* Properties of the admin-only product routes *)

AdminOnlyOps ==
    {"create_product", "update_product", "delete_product", "upload_product_images"}

(* the stored user whose valid access token the request carries, if any *)
CallerOf(authorization) ==
    IF authorization.some THEN auth_service_get_current_user(authorization.val)
    ELSE None

CatalogUntouched == products' = products /\ search' = search

(* C15: an admin-only product mutation called with a valid token of an    *)
(* active non-admin is answered 403 and called without a credential is    *)
(* answered 401, the catalog and the search index staying as they were;   *)
(* the checks run in the order credential (401), active (401), admin      *)
(* (403).                                                                 *)
AdminOnlyMutationsRefused ==
    [][resp'.op \in AdminOnlyOps =>
        LET caller == CallerOf(resp'.req.authorization)
        IN  /\ ~resp'.req.authorization.some =>
                   resp'.out.status = 401 /\ CatalogUntouched
            /\ (resp'.req.authorization.some /\ ~caller.some) =>
                   resp'.out.status = 401 /\ CatalogUntouched
            /\ (caller.some /\ ~caller.val.is_active) =>
                   resp'.out.status = 401 /\ CatalogUntouched
            /\ (caller.some /\ caller.val.is_active /\ ~caller.val.is_admin) =>
                   resp'.out.status = 403 /\ CatalogUntouched]_vars

-----------------------------------------------------------------------------
(* Properties of the search service *)

SearchFailed ==
    /\ resp.op = "search_products"
    /\ search_query_valid(resp.req.params)
    /\ resp.req.es_search.raised # "no"

-----------------------------------------------------------------------------
(* Properties of the forgot-password route *)

ActiveHolders(email) ==
    {i \in 1..Len(users) : users[i].email = email /\ users[i].is_active}

(* C17: the forgot-password response is the same whoever the address      *)
(* belongs to, an active user, an inactive user or nobody; a reset email  *)
(* is scheduled only for a matching active user; nothing stored changes.  *)
ForgotPasswordUniform ==
    [][resp'.op = "forgot_password" =>
        /\ resp'.out = [status |-> 204, body |-> None]
        /\ users' = users /\ addresses' = addresses /\ products' = products
        /\ reviews' = reviews /\ orders' = orders /\ search' = search
        /\ IF ActiveHolders(resp'.req.email) # {}
           THEN /\ Len(mail') = Len(mail) + 1
                /\ SubSeq(mail', 1, Len(mail)) = mail
                /\ mail'[Len(mail')].task = "send_password_reset_email"
                /\ mail'[Len(mail')].to = resp'.req.email
           ELSE mail' = mail]_vars

(* C17 witness: after a reset email went to an active user, the request   *)
(* for a deactivated account's address is answered, and so is the one     *)
(* for an address nobody holds                                            *)
ForgotPasswordUniformWitness ==
    /\ resp.op = "forgot_password"
    /\ resp.out.status = 204
    /\ Len(mail) = 1 /\ mail[1].to = "bob@example.com"
    /\ \/ \E i \in 1..Len(users) : users[i].email = resp.req.email /\ ~users[i].is_active
       \/ \A i \in 1..Len(users) : users[i].email # resp.req.email

-----------------------------------------------------------------------------
(* Properties of the optional user *)

(* C18: resolving the optional user never raises; a GET of an active      *)
(* product that carries no Authorization header, or a credential that     *)
(* resolves to nobody, is answered 200 with the product.                  *)
OptionalUserNeverRaises ==
    (/\ resp.op = "get_product"
     /\ ~CallerOf(resp.req.authorization).some
     /\ select_active_product(resp.req.product_id).some) =>
        /\ resp.out.status = 200
        /\ resp.out.body.id = resp.req.product_id

-----------------------------------------------------------------------------
(* Properties of the view counter *)

Fetched(id) ==
    IF resp'.op = "get_product" /\ resp'.out.status = 200 /\ resp'.req.product_id = id
    THEN 1 ELSE 0

(* C19: every successful GET of a product adds one to its stored          *)
(* view_count, whatever other requests are in flight, and no other step   *)
(* (a GET ending in not-found included) changes a view_count; so n        *)
(* successful fetches add exactly n.                                      *)
ViewCountCountsFetches ==
    [][/\ DOMAIN products' = DOMAIN products
       /\ \A id \in DOMAIN products :
              products'[id].view_count = products[id].view_count + Fetched(id)]_vars


(* C20: a listing's total_count is the number of active products that     *)
(* match the filters, counted before pagination and 0 when none does,     *)
(* and its total_pages is ceil(total_count / page_size).                  *)
TotalsCountMatches ==
    (resp.op = "get_products" /\ resp.out.status = 200) =>
        LET n == Cardinality({id \in DOMAIN products :
                                 product_filters(products[id], resp.req)})
            size == resp.req.page_size
        IN  /\ resp.out.body.total_count = n
            /\ resp.out.body.total_pages * size >= n
            /\ (resp.out.body.total_pages - 1) * size < n
            /\ resp.out.body.total_pages >= 0


-----------------------------------------------------------------------------
(* Properties of the error responses *)

(* C21: every response of status 400, 404, 401 or 403, however the        *)
(* handler or its identity dependencies came to reject the request, has   *)
(* the body {"error": <category label>, "detail": <message>}.             *)
ErrorResponsesShareShape ==
    (resp.op \in AdminOnlyOps /\ resp.out.status \in {400, 401, 403, 404}) =>
        DOMAIN resp.out = {"status", "error", "detail"}


-----------------------------------------------------------------------------
(* Properties of deactivated accounts *)

(* the email address a request acts for: the one it names, or the         *)
(* subject of the token it presents                                       *)
SubjectOf(response) ==
    CASE response.op = "login" -> response.req.email
      [] response.op = "refresh_token" -> response.req.refresh_token.claims.sub
      [] response.op = "reset_password" -> response.req.token.claims.sub
      [] OTHER -> response.req.authorization.val.claims.sub

InactiveSubject(response) ==
    \E i \in 1..Len(users) :
        users[i].email = SubjectOf(response) /\ ~users[i].is_active

GuardedOps ==
    {"login", "refresh_token", "reset_password", "get_my_profile",
     "change_password", "delete_product"}

(* C22: a user whose is_active flag is false is answered with the         *)
(* unauthorized fault by login, refresh, reset-password and the routes    *)
(* guarded by the active-user and admin dependencies, also when the       *)
(* access, refresh or reset token presented was issued while the account  *)
(* was active.                                                            *)
InactiveUserRejected ==
    (resp.op \in GuardedOps /\ InactiveSubject(resp)) =>
        /\ resp.out.status = 401
        /\ resp.out.error = "Unauthorized"

(* C22 witness: the admin's refresh token, issued while the account was   *)
(* active, is refused after the deactivation                              *)
InactiveUserRejectedWitness ==
    /\ resp.op = "refresh_token"
    /\ resp.req.refresh_token = create_refresh_token(TokenClaims(2), 0)
    /\ ~users[2].is_active
    /\ resp.out.status = 401


-----------------------------------------------------------------------------
(* Properties of password replacement *)

PasswordOps == {"reset_password", "change_password"}

(* the new password a replacement request carries *)
NewPasswordOf(response) ==
    IF response.op = "reset_password" THEN response.req.new_password
    ELSE response.req.password_data.new_password

(* the passwords that sign the holder of an email address in, given the   *)
(* rows of the users table                                                *)
Authenticating(rows, email) ==
    {p \in Passwords :
        \E i \in 1..Len(rows) :
            /\ rows[i].email = email
            /\ verify_password(p, rows[i].password_hash)}

(* C23: a password replacement, through reset-password or through         *)
(* change-password, is all or nothing: a rejected request leaves the      *)
(* stored hash as it was and the old password still authenticates, and    *)
(* after an accepted one the new password authenticates and no other.     *)
PasswordReplacementAllOrNothing ==
    [][resp'.op \in PasswordOps =>
          IF resp'.out.status # 204
          THEN /\ \A i \in 1..Len(users) :
                      users'[i].password_hash = users[i].password_hash
               /\ \A e \in Emails : Authenticating(users', e) = Authenticating(users, e)
          ELSE LET e == SubjectOf(resp')
               IN  /\ Authenticating(users', e) = {NewPasswordOf(resp')}
                   /\ \A i \in 1..Len(users) :
                          users[i].email # e => users'[i] = users[i]]_vars

(* C23 witnesses: a too-short replacement was rejected and the old        *)
(* password still signs in; a replacement went through and only the new   *)
(* password signs in                                                      *)
PasswordReplacementWitness ==
    \/ /\ resp.op = "change_password"
       /\ resp.out.status = 204
       /\ resp.req.password_data = [current_password |-> "passwd08",
                                    new_password |-> "password9"]
       /\ Authenticating(users, "ann@example.com") = {"password9"}
    \/ /\ resp.op = "reset_password"
       /\ resp.out.status = 400
       /\ Len(resp.req.new_password) < MIN_PASSWORD_LENGTH
       /\ users[1].password_hash = SeedUser(TRUE).password_hash
       /\ Authenticating(users, "ann@example.com") = {"passwd08"}


-----------------------------------------------------------------------------
(* Properties of address ownership *)

AddressIdOps == {"get_address", "update_address", "delete_address"}

(* the address a request names is stored for its requester *)
OwnAddress(req) ==
    /\ req.address_id \in DOMAIN addresses
    /\ addresses[req.address_id].user_id = req.user_id

(* the users with a request in flight *)
Requesters == {areq[r].user_id : r \in {s \in AddrSlots : areq[s].pc # "idle"}}

(* C24: get, update and delete of an address act on the requester's own   *)
(* addresses only: an id of another user's address, like an id that is    *)
(* not stored, is answered with the not-found fault, a returned address   *)
(* is the requester's, and no step of a user's address request changes    *)
(* or removes an address of another user, its default flag included.      *)
AddressesScopedToRequester ==
    [][/\ resp'.op \in AddressIdOps =>
            IF OwnAddress(resp'.req)
            THEN /\ resp'.out.status \in {200, 204}
                 /\ resp'.out.status = 200 =>
                        /\ resp'.out.body.id = resp'.req.address_id
                        /\ resp'.out.body.user_id = resp'.req.user_id
            ELSE /\ resp'.out = not_found_exception_handler("Address not found")
                 /\ resp'.out.status = 404
                 /\ UNCHANGED addresses
       /\ \A id \in DOMAIN addresses :
              addresses[id].user_id \notin Requesters =>
                  /\ id \in DOMAIN addresses'
                  /\ addresses'[id] = addresses[id]]_vars

(* C24 witness: a customer named the stored default address of the other  *)
(* customer in an update and got the not-found fault                      *)
AddressesScopedWitness ==
    /\ resp.op = "update_address"
    /\ resp.req.address_id \in DOMAIN addresses
    /\ addresses[resp.req.address_id].user_id # resp.req.user_id
    /\ addresses[resp.req.address_id].is_default
    /\ resp.req.data.is_default = Some(FALSE)
    /\ resp.out.status = 404


-----------------------------------------------------------------------------
(* Properties of the request-scoped session *)

(* C25: when a fault escapes the handler, the open transaction of the     *)
(* request's session is rolled back and the same fault is raised again;   *)
(* on every way out, return or fault, the session is closed, so that no   *)
(* session is open once its request has ended.                            *)
SessionRolledBackAndClosed ==
    \A r \in SessionSlots :
        /\ sessions[r].pc \in {"idle", "exited"} =>
               /\ ~sessions[r].open
               /\ sessions[r].tx = "none"
               /\ sessions[r].raised = sessions[r].fault
        /\ (sessions[r].pc \in {"finally", "exited"} /\ sessions[r].fault.some) =>
               /\ sessions[r].rolled_back
               /\ sessions[r].tx = "none"
               /\ sessions[r].raised = sessions[r].fault

(* C25 witness: a handler raised with a transaction open, and its request *)
(* ended with the transaction rolled back and the session closed          *)
SessionRolledBackWitness ==
    \E r \in SessionSlots :
        /\ sessions[r].pc = "exited"
        /\ sessions[r].fault = Some("IntegrityError")
        /\ sessions[r].rolled_back
        /\ ~sessions[r].open


-----------------------------------------------------------------------------
(* Properties of email sending *)

(* C26: a failure of the verification email never fails the registration: *)
(* whatever step of composing or sending goes wrong, the send reports     *)
(* false instead of raising, the registration has returned 201 with the   *)
(* user stored, and an email is handed over only for a stored user.       *)
EmailFailureNeverRaises ==
    /\ \A i \in 1..Len(tasks) :
           /\ tasks[i].result.raised = "no"
           /\ tasks[i].result.returned = (tasks[i].failure = "none")
    /\ \A i \in 1..Len(mail) :
           mail[i].task = "send_verification_email" =>
               \E u \in 1..Len(users) : users[u].email = mail[i].to
    /\ (resp.op = "register" /\ resp.out.status = 201) =>
           \E u \in 1..Len(users) : users[u].email = resp.req.email


-----------------------------------------------------------------------------
(* Properties of the catalog an admin maintains *)

(* the stored products that have the SKU or the slug of a product to be   *)
(* created                                                                *)
Taken(product_data) ==
    {id \in DOMAIN products :
        \/ products[id].sku = product_data.sku
        \/ products[id].slug = product_data.slug}

AdminCaller(authorization) ==
    LET caller == CallerOf(authorization)
    IN  caller.some /\ caller.val.is_active /\ caller.val.is_admin

(* C27: an admin's create-product whose SKU or slug belongs to a stored   *)
(* product, active or soft-deleted, is answered with the validation       *)
(* fault, status 400; no row is inserted and nothing is sent to the       *)
(* search index.                                                          *)
DuplicateCreateRejected ==
    [][(/\ resp'.op = "create_product"
        /\ AdminCaller(resp'.req.authorization)
        /\ Taken(resp'.req.product_data) # {}) =>
            /\ resp'.out.status = 400
            /\ resp'.out.error = "Validation Error"
            /\ resp'.out.detail \in {"SKU already exists", "Slug already exists"}
            /\ CatalogUntouched]_vars

(* C27 witness: a product was created with the SKU of a soft-deleted      *)
(* product and the request was refused                                    *)
DuplicateCreateWitness ==
    /\ resp.op = "create_product"
    /\ resp.out.status = 400
    /\ \E id \in DOMAIN products :
           /\ products[id].sku = resp.req.product_data.sku
           /\ ~products[id].is_active


(* the ids of the products a read of the catalog returned *)
Returned(response) ==
    IF response.op = "get_product" THEN {response.out.body.id}
    ELSE {response.out.body.products[i].id :
              i \in DOMAIN response.out.body.products}

(* C28: whatever products an admin created, changed and deleted, and      *)
(* whichever calls of the search engine failed, a product stored with     *)
(* is_active false is returned by no listing, product page or search,     *)
(* and the search index holds no document marked active for it.           *)
InactiveProductsNeverReturned ==
    /\ (resp.op \in {"get_products", "get_product", "search_products"}
            /\ resp.out.status = 200) =>
           \A id \in Returned(resp) :
               id \in DOMAIN products /\ products[id].is_active
    /\ \A id \in DOMAIN search :
           (id \in DOMAIN products /\ ~products[id].is_active) =>
               ~search[id].is_active


(* the products other than the updated one that have the SKU or the slug  *)
(* an update assigns                                                      *)
Conflicting(req) ==
    {id \in DOMAIN products \ {req.product_id} :
        \/ req.product_data.sku = Some(products[id].sku)
        \/ req.product_data.slug = Some(products[id].slug)}

Unique(table, column) ==
    \A i, j \in DOMAIN table : table[i][column] = table[j][column] => i = j

(* C29: SKU and slug each stay unique over all product rows whatever      *)
(* products are created and updated, and an admin's update that assigns   *)
(* a stored product the SKU or slug of another product ends in the        *)
(* validation fault with no row changed, not in an unhandled error.       *)
SkuAndSlugStayUnique ==
    [][/\ Unique(products', "sku") /\ Unique(products', "slug")
       /\ (/\ resp'.op = "update_product"
           /\ AdminCaller(resp'.req.authorization)
           /\ resp'.req.product_id \in DOMAIN products
           /\ Conflicting(resp'.req) # {}) =>
               /\ resp'.out.status = 400
               /\ resp'.out.error = "Validation Error"
               /\ products' = products]_vars


-----------------------------------------------------------------------------
(* Properties of the account flags *)

ProfileColumns == {"first_name", "last_name", "phone"}

====
